---------------------------- MODULE Spec2Model ----------------------------
(***************************************************************************)
(* A model of the force elements of src/src/Force.cpp (SimTK Simbody):     *)
(* the two-point elements, the LinearBushing with its lazily validated     *)
(* caches, the Nose-Hoover Thermostat, and the accumulation of forces.     *)
(*                                                                         *)
(* Numbers.  The code computes in floating-point reals.  Here vectors and  *)
(* matrices hold integers, computed exactly, and the quantities the code   *)
(* obtains by division (energies, the thermostat's derivatives) are exact  *)
(* rationals [n, d].  Rotations are drawn from the axis-aligned rotations, *)
(* whose matrices are integer; angles are measured in quarter turns, the   *)
(* unit in which those rotations have integer Euler angles.                *)
(***************************************************************************)
EXTENDS Integers, Sequences, FiniteSets, TLC

(***************************************************************************)
(* Bounds of the model.                                                    *)
(***************************************************************************)
MaxCoef == 1

MaxCoord == 1

MaxParam == 2

MaxChains == 3

MaxForces == 2

(***************************************************************************)
(* Vec3, Mat33, Rotation, Transform, SpatialVec (SimTKcommon), as the      *)
(* source uses them.                                                       *)
(***************************************************************************)
Zero3 == <<0, 0, 0>>

Zero6 == <<0, 0, 0, 0, 0, 0>>

Vec3Add(a, b) == <<a[1] + b[1], a[2] + b[2], a[3] + b[3]>>

Vec3Sub(a, b) == <<a[1] - b[1], a[2] - b[2], a[3] - b[3]>>

Vec3Neg(a) == <<0 - a[1], 0 - a[2], 0 - a[3]>>

Vec3Scale(s, a) == <<s * a[1], s * a[2], s * a[3]>>

Dot(a, b) == a[1] * b[1] + a[2] * b[2] + a[3] * b[3]

\* a % b
Cross(a, b) ==
    << a[2] * b[3] - a[3] * b[2],
       a[3] * b[1] - a[1] * b[3],
       a[1] * b[2] - a[2] * b[1] >>

\* M * v
MatVec(M, v) == <<Dot(M[1], v), Dot(M[2], v), Dot(M[3], v)>>

\* ~M
Transpose(M) ==
    << <<M[1][1], M[2][1], M[3][1]>>,
       <<M[1][2], M[2][2], M[3][2]>>,
       <<M[1][3], M[2][3], M[3][3]>> >>

\* A * B
MatMul(A, B) ==
    LET Bt == Transpose(B)
    IN  << MatVec(Bt, A[1]), MatVec(Bt, A[2]), MatVec(Bt, A[3]) >>

Identity33 == << <<1, 0, 0>>, <<0, 1, 0>>, <<0, 0, 1>> >>

\* cosine and sine of n quarter turns
Cos4(n) == CASE n % 4 = 0 -> 1 [] n % 4 = 2 -> 0 - 1 [] OTHER -> 0

Sin4(n) == CASE n % 4 = 1 -> 1 [] n % 4 = 3 -> 0 - 1 [] OTHER -> 0

RotX(n) ==
    << <<1, 0, 0>>,
       <<0, Cos4(n), 0 - Sin4(n)>>,
       <<0, Sin4(n), Cos4(n)>> >>

RotY(n) ==
    << <<Cos4(n), 0, Sin4(n)>>,
       <<0, 1, 0>>,
       <<0 - Sin4(n), 0, Cos4(n)>> >>

RotZ(n) ==
    << <<Cos4(n), 0 - Sin4(n), 0>>,
       <<Sin4(n), Cos4(n), 0>>,
       <<0, 0, 1>> >>

Xform(R, p) == [R |-> R, p |-> p]

IdentityTransform == Xform(Identity33, Zero3)

\* X_AB * X_BC
XformMul(X, Y) == Xform(MatMul(X.R, Y.R), Vec3Add(X.p, MatVec(X.R, Y.p)))

\* ~X
XformInv(X) == Xform(Transpose(X.R), Vec3Neg(MatVec(Transpose(X.R), X.p)))

\* SpatialVec(moment, force) or SpatialVec(angular, linear); [0] is index 1
SpatialVec(w, v) == <<w, v>>

ZeroSpatial == SpatialVec(Zero3, Zero3)

SpatialAdd(a, b) == SpatialVec(Vec3Add(a[1], b[1]), Vec3Add(a[2], b[2]))

SpatialSub(a, b) == SpatialVec(Vec3Sub(a[1], b[1]), Vec3Sub(a[2], b[2]))

SpatialNeg(a) == SpatialVec(Vec3Neg(a[1]), Vec3Neg(a[2]))

\* Vec6 from two Vec3 (updSubVec<3>(0), updSubVec<3>(3)), and its halves
\* (getSubVec<3>(i), i = 0 or 3)
Vec6(a, b) == <<a[1], a[2], a[3], b[1], b[2], b[3]>>

SubVec3(v, i) == <<v[i + 1], v[i + 2], v[i + 3]>>

\* atan2(y, x) in quarter turns, for (x, y) a unit vector along an axis;
\* the result lies in (-2, 2] as atan2's lies in (-pi, pi]
Atan2Quarter(y, x) ==
    CASE x = 1 -> 0
      [] y = 1 -> 1
      [] x = 0 - 1 -> 2
      [] y = 0 - 1 -> 0 - 1
      [] OTHER -> 0

\* Rotation::convertRotationToBodyFixedXYZ: the angles q with
\* R = RotX(q[1]) * RotY(q[2]) * RotZ(q[3]), where R[0][2] = sin(q1),
\* -R[1][2]/R[2][2] = tan(q0) and -R[0][1]/R[0][0] = tan(q2)
convertRotationToBodyFixedXYZ(R) ==
    << Atan2Quarter(0 - R[2][3], R[3][3]),
       R[1][3],
       Atan2Quarter(0 - R[1][2], R[1][1]) >>

\* Rotation::calcNForBodyXYZInBodyFrame: the matrix N with qdot = N * w_FM_M
calcNForBodyXYZInBodyFrame(q) ==
    LET s1 == Sin4(q[2])
        c1 == Cos4(q[2])
        s2 == Sin4(q[3])
        c2 == Cos4(q[3])
        s2oc1 == s2 \div c1
        c2oc1 == c2 \div c1
    IN  << <<c2oc1, 0 - s2oc1, 0>>,
           <<s2, c2, 0>>,
           <<0 - s1 * c2oc1, s1 * s2oc1, 1>> >>

(***************************************************************************)
(* Exact rationals [n, d], d > 0, in lowest terms.                         *)
(***************************************************************************)
Abs(x) == IF x < 0 THEN 0 - x ELSE x

RECURSIVE GCD(_, _)
GCD(a, b) == IF b = 0 THEN a ELSE GCD(b, a % b)

Rat(n, d) ==
    LET g == GCD(Abs(n), Abs(d))
        s == IF d < 0 THEN 0 - 1 ELSE 1
    IN  [n |-> (s * n) \div g, d |-> (s * d) \div g]

RInt(i) == [n |-> i, d |-> 1]

RAdd(a, b) == Rat(a.n * b.d + b.n * a.d, a.d * b.d)

RSub(a, b) == Rat(a.n * b.d - b.n * a.d, a.d * b.d)

RMul(a, b) == Rat(a.n * b.n, a.d * b.d)

RDiv(a, b) == Rat(a.n * b.d, a.d * b.n)

RZero == RInt(0)


(***************************************************************************)
(* The state.                                                              *)
(*   X_G, V_G         the matter subsystem's state: each body's transform  *)
(*                    and spatial velocity in Ground (body 0 is Ground)    *)
(*   stateQ, stateU   the State's generalized coordinates q and speeds u   *)
(*   matter           the matter subsystem's constants: the mass matrix,   *)
(*                    the number of acceleration constraint equations, the *)
(*                    bodies' mass properties, the particles               *)
(*   bushing          the LinearBushingImpl's fields                       *)
(*   twoPoint         the fields of the TwoPointLinearSpringImpl, the      *)
(*                    TwoPointLinearDamperImpl and the                     *)
(*                    TwoPointConstantForceImpl                            *)
(*   simple           the fields of the other stateless elements' Impls    *)
(*   cache            the LinearBushing's cache entries in the State, each *)
(*                    with its validity flag, and (instrumentation) how    *)
(*                    often each was computed for the present snapshot     *)
(*   bodyForces, particleForces, mobilityForces   the accumulators         *)
(*   calls            calcForce calls made on the present accumulators     *)
(*   evaluated        the elements whose calcForce has run in the present  *)
(*                    evaluation of all the elements                       *)
(*   thermostat       the ThermostatImpl's fields                          *)
(*   adopted          the forces the GeneralForceSubsystem has adopted     *)
(*   topologyValid    the System's topology cache is valid                 *)
(*   stage            the stage the State is realized to                   *)
(*   dv               the Thermostat's discrete variables in the State     *)
(*   z, zdot          the Thermostat's auxiliary continuous block in the   *)
(*                    State and its time derivative                        *)
(*   thermoCache      the Thermostat's momentum and kinetic energy cache   *)
(*   err              the error the last operation reported, "" if none    *)
(*   handles          for each handle type, whether a handle holding an   *)
(*                    Impl has been constructed, and the ForceIndex that   *)
(*                    setForceSubsystem has bound to the Impl              *)
(*   returned         the element whose calcPotentialEnergy (or the        *)
(*                    Thermostat's calcBathEnergy) was called last, and     *)
(*                    the value it returned                                *)
(***************************************************************************)
VARIABLES X_G, V_G, stateQ, stateU, matter,
          bushing, twoPoint, simple, cache,
          bodyForces, particleForces, mobilityForces, calls, evaluated,
          thermostat, adopted, topologyValid, stage, dv, z, zdot,
          thermoCache, err, handles, returned

matterVars == <<X_G, V_G, stateQ, stateU, matter>>

elementVars == <<bushing, twoPoint, simple, returned>>

accumVars == <<bodyForces, particleForces, mobilityForces>>

thermoVars == <<thermostat, adopted, handles, topologyValid, stage, dv, z,
                zdot, thermoCache, err>>

vars == <<X_G, V_G, stateQ, stateU, matter,
          bushing, twoPoint, simple, cache,
          bodyForces, particleForces, mobilityForces, calls, evaluated,
          thermostat, adopted, topologyValid, stage, dv, z, zdot,
          thermoCache, err, handles, returned>>

NU == 2

NParticles == 1

Bodies == 0 .. 2

(***************************************************************************)
(* The parts of the state an element does not use, at rest.                *)
(***************************************************************************)
DefaultMatter ==
    [M |-> << <<1, 0>>, <<0, 1>> >>, nUDotErr |-> 0,
     mass |-> [b \in Bodies |-> 1], com |-> [b \in Bodies |-> <<0, 0, 0>>],
     particleMass |-> <<1>>, particleLoc |-> << <<0, 0, 0>> >>]

NoBushing ==
    [bodyA |-> 1, X_AF |-> [R |-> << <<1, 0, 0>>, <<0, 1, 0>>, <<0, 0, 1>> >>,
                            p |-> <<0, 0, 0>>],
     bodyB |-> 2, X_BM |-> [R |-> << <<1, 0, 0>>, <<0, 1, 0>>, <<0, 0, 1>> >>,
                            p |-> <<0, 0, 0>>],
     k |-> <<0, 0, 0, 0, 0, 0>>, c |-> <<0, 0, 0, 0, 0, 0>>]

NoTwoPoint ==
    [body1 |-> 1, station1 |-> <<0, 0, 0>>, body2 |-> 2, station2 |-> <<0, 0, 0>>,
     k |-> 0, x0 |-> 0, damping |-> 0, force |-> 0]

\* The parameters of the one-body, mobility and system-wide elements
SimpleElements(a) ==
    [mobilitySpring |-> [body |-> 1, coordinate |-> 0, k |-> a, x0 |-> 1],
     mobilityDamper |-> [body |-> 2, coordinate |-> 0, damping |-> a],
     mobilityConstant |-> [body |-> 1, coordinate |-> 0, force |-> a],
     constantForce |-> [body |-> 2, station |-> <<0, 1, 0>>, force |-> <<a, 0, 0>>],
     constantTorque |-> [body |-> 2, torque |-> <<0, 0, a>>],
     globalDamper |-> [damping |-> a],
     gravity |-> [g |-> <<0, 0 - a, 0>>, zeroHeight |-> 0]]

NoSimple == SimpleElements(0)

\* The handle types of Force.cpp
ForceKinds ==
    { "TwoPointLinearSpring", "TwoPointLinearDamper", "TwoPointConstantForce",
      "MobilityLinearSpring", "MobilityLinearDamper", "MobilityConstantForce",
      "LinearBushing", "ConstantForce", "ConstantTorque", "GlobalDamper",
      "Thermostat", "UniformGravity", "Custom" }

\* The ForceIndex of an Impl that setForceSubsystem has not been called on
InvalidIndex == 0 - 1

NoHandle == [impl |-> FALSE, forceIndex |-> InvalidIndex]

NoneRegistered == [kind \in ForceKinds |-> NoHandle]

\* GeneralForceSubsystem::adoptForce appends the force to the subsystem's
\* list; the index it returns is the force's place in the list, from 0
adoptForce(forces, kind) == Append(forces, kind)

\* ForceImpl::setForceSubsystem stores the index in the Impl the handle holds
setForceSubsystem(h, kind, index) ==
    [h EXCEPT ![kind] = [impl |-> TRUE, forceIndex |-> index]]

\* No energy has been asked for
NoEnergy == [of |-> "", value |-> [n |-> 0, d |-> 1]]

NoThermostat ==
    [constructed |-> FALSE, Kb |-> 0, defaultNumChains |-> 0,
     defaultBathTemp |-> 0, defaultRelaxationTime |-> 0]

NoDiscreteVariables == [numChains |-> 0, bathTemp |-> 0, relaxationTime |-> 0]

NoThermoCache == [momentum |-> <<0, 0>>, KE |-> [n |-> 0, d |-> 1]]

MatterIdle ==
    /\ stateQ = [i \in 1 .. NU |-> 0]
    /\ stateU = [i \in 1 .. NU |-> 0]
    /\ matter = DefaultMatter

ThermostatIdle ==
    /\ thermostat = NoThermostat
    /\ adopted = <<>>
    /\ handles = NoneRegistered
    /\ topologyValid = FALSE
    /\ stage = 0
    /\ dv = NoDiscreteVariables
    /\ z = <<>>
    /\ zdot = <<>>
    /\ thermoCache = NoThermoCache
    /\ err = ""

(***************************************************************************)
(* Sample inputs.  A coefficient vector has one value a on a set of axes   *)
(* and 0 elsewhere; a point has one coordinate value d on a set of axes.   *)
(***************************************************************************)
Mask6(S, a) ==
    << IF 1 \in S THEN a ELSE 0, IF 2 \in S THEN a ELSE 0,
       IF 3 \in S THEN a ELSE 0, IF 4 \in S THEN a ELSE 0,
       IF 5 \in S THEN a ELSE 0, IF 6 \in S THEN a ELSE 0 >>

Mask3(S, a) ==
    << IF 1 \in S THEN a ELSE 0, IF 2 \in S THEN a ELSE 0,
       IF 3 \in S THEN a ELSE 0 >>

StiffnessSamples ==
    { Zero6, Mask6(1 .. 6, 1), Mask6({1, 5}, 1) }
       \cup { Mask6({4}, a) : a \in 1 .. MaxCoef }

DampingSamples == { Zero6 } \cup { Mask6(1 .. 6, a) : a \in 1 .. MaxCoef }

PointSamples ==
    { Zero3, <<1, 0, 0>>, <<0, 1, 0>> }
       \cup { Mask3({1, 2}, d) : d \in 1 .. MaxCoord }

RotationSamples == { Identity33, RotZ(1), RotX(2) }

\* The frames F on body A and M on body B
FramePairSamples ==
    { <<IdentityTransform, IdentityTransform>>,
      <<Xform(RotZ(1), <<1, 0, 0>>), Xform(RotX(1), <<0, 1, 0>>)>> }

PoseSamplesA == { IdentityTransform, Xform(RotZ(1), <<0, 1, 0>>) }

PoseSamplesB ==
    { Xform(Identity33, p) : p \in PointSamples }
       \cup { Xform(R, Zero3) : R \in RotationSamples }
       \cup PoseSamplesA \cup { Xform(RotX(2), <<0, 1, 0>>) }

VelocitySamplesA == { ZeroSpatial, SpatialVec(<<0, 0, 1>>, <<1, 0, 0>>) }

VelocitySamplesB ==
    VelocitySamplesA \cup { SpatialVec(<<1, 0, 0>>, <<0, 1, 1>>) }

(***************************************************************************)
(* LinearBushing (src/src/Force.cpp, 274-526)                              *)
(***************************************************************************)
\* LinearBushingImpl's fields, as its constructor sets them
LinearBushingImpl(bodyA, frameOnA, bodyB, frameOnB, stiffness, damping) ==
    [bodyA |-> bodyA, X_AF |-> frameOnA, bodyB |-> bodyB, X_BM |-> frameOnB,
     k |-> stiffness, c |-> damping]

\* A default-constructed cache entry (its contents are read only when valid)
EmptyPositionCache ==
    [X_GF |-> IdentityTransform, X_GM |-> IdentityTransform,
     X_FM |-> IdentityTransform,
     p_AF_G |-> Zero3, p_BM_G |-> Zero3, p_FM_G |-> Zero3, q |-> Zero6]

EmptyVelocityCache ==
    [V_GF |-> ZeroSpatial, V_GM |-> ZeroSpatial, V_FM |-> ZeroSpatial,
     qdot |-> Zero6]

EmptyForceCache ==
    [f |-> Zero6, F_GM |-> ZeroSpatial, F_GF |-> ZeroSpatial,
     F_GB |-> ZeroSpatial, F_GA |-> ZeroSpatial]

NoneComputed == [position |-> 0, velocity |-> 0, force |-> 0, potentialEnergy |-> 0]

EmptyCache ==
    [positionCache |-> EmptyPositionCache, positionValid |-> FALSE,
     velocityCache |-> EmptyVelocityCache, velocityValid |-> FALSE,
     forceCache |-> EmptyForceCache, forceValid |-> FALSE,
     potentialEnergyCache |-> RZero, potentialEnergyValid |-> FALSE,
     computed |-> NoneComputed]

Count(cs, what) ==
    [cs.computed EXCEPT ![what] = @ + 1]

\* The PositionCache that ensurePositionCacheValid fills in (lines 353-371)
calcPositionCache(b, XG) ==
    LET X_GA == XG[b.bodyA]
        X_GB == XG[b.bodyB]
        entry(X_GF, X_GM, X_FM) ==
            [X_GF |-> X_GF, X_GM |-> X_GM, X_FM |-> X_FM,
             p_AF_G |-> MatVec(X_GA.R, b.X_AF.p),
             p_BM_G |-> MatVec(X_GB.R, b.X_BM.p),
             p_FM_G |-> MatVec(X_GF.R, X_FM.p),
             q |-> Vec6(convertRotationToBodyFixedXYZ(X_FM.R), X_FM.p)]
        between(X_GF, X_GM) == entry(X_GF, X_GM, XformMul(XformInv(X_GF), X_GM))
    IN  between(XformMul(X_GA, b.X_AF), XformMul(X_GB, b.X_BM))

ensurePositionCacheValid(cs, b, XG) ==
    IF cs.positionValid THEN cs
    ELSE [cs EXCEPT !.positionCache = calcPositionCache(b, XG),
                    !.positionValid = TRUE,
                    !.computed = Count(cs, "position")]

\* The VelocityCache that ensureVelocityCacheValid fills in (lines 382-410)
calcVelocityCache(pc, b, VG) ==
    LET R_GF == pc.X_GF.R
        R_FM == pc.X_FM.R
        q    == SubVec3(pc.q, 0)
        V_GA == VG[b.bodyA]
        V_GB == VG[b.bodyB]
        entry(V_GF, V_GM, V_FM) ==
            [V_GF |-> V_GF, V_GM |-> V_GM, V_FM |-> V_FM,
             qdot |-> Vec6(MatVec(calcNForBodyXYZInBodyFrame(q),
                                  MatVec(Transpose(R_FM), V_FM[1])),
                           V_FM[2])]
        inF(V_GF, V_GM, V_FM_G) ==
            entry(V_GF, V_GM,
                  SpatialVec(MatVec(Transpose(R_GF), V_FM_G[1]),
                             MatVec(Transpose(R_GF),
                                    Vec3Sub(V_FM_G[2], Cross(V_GF[1], pc.p_FM_G)))))
        between(V_GF, V_GM) == inF(V_GF, V_GM, SpatialSub(V_GM, V_GF))
    IN  between(SpatialVec(V_GA[1], Vec3Add(V_GA[2], Cross(V_GA[1], pc.p_AF_G))),
                SpatialVec(V_GB[1], Vec3Add(V_GB[2], Cross(V_GB[1], pc.p_BM_G))))

\* An ensureVelocityCacheValid that fills the entry without the test of its
\* validity
ensureVelocityCacheValidUntested(cs, b, XG, VG) ==
    LET filled(c1) ==
            [c1 EXCEPT !.velocityCache = calcVelocityCache(c1.positionCache, b, VG),
                       !.velocityValid = TRUE,
                       !.computed = Count(c1, "velocity")]
    IN  filled(ensurePositionCacheValid(cs, b, XG))

ensureVelocityCacheValid(cs, b, XG, VG) ==
    IF cs.velocityValid THEN cs
    ELSE LET filled(c1) ==
                 [c1 EXCEPT !.velocityCache = calcVelocityCache(c1.positionCache, b, VG),
                            !.velocityValid = TRUE,
                            !.computed = Count(c1, "velocity")]
         IN  filled(ensurePositionCacheValid(cs, b, XG))

\* The stiffness force summed without the second factor q[i]
RECURSIVE pe2ForceUnsquared(_, _, _)
pe2ForceUnsquared(k, q, i) ==
    IF i = 0 THEN 0 ELSE pe2ForceUnsquared(k, q, i - 1) + k[i] * q[i]

\* pe2 of ensureForceCacheValid (line 448): the sum of (fk[i] = k[i]*q[i]) * q[i]
RECURSIVE pe2Force(_, _, _)
pe2Force(k, q, i) ==
    IF i = 0 THEN 0 ELSE pe2Force(k, q, i - 1) + (k[i] * q[i]) * q[i]

\* pe2 of ensurePotentialEnergyValid (line 501): the sum of k[i] * square(q[i])
RECURSIVE pe2Standalone(_, _, _)
pe2Standalone(k, q, i) ==
    IF i = 0 THEN 0 ELSE pe2Standalone(k, q, i - 1) + k[i] * (q[i] * q[i])

\* A force cache whose damping force is taken from q instead of qdot
calcForceCacheDampingOnQ(pc, vc, b) ==
    LET q  == pc.q
        N_FM == calcNForBodyXYZInBodyFrame(SubVec3(q, 0))
        entry(f, F_GM, F_GF) ==
            [f |-> f, F_GM |-> F_GM, F_GF |-> F_GF,
             F_GB |-> SpatialVec(Vec3Add(F_GM[1], Cross(pc.p_BM_G, F_GM[2])), F_GM[2]),
             F_GA |-> SpatialVec(Vec3Add(F_GF[1], Cross(pc.p_AF_G, F_GF[2])), F_GF[2])]
        reaction(f, F_GM) == entry(f, F_GM, SpatialNeg(F_GM))
        inG(f) == reaction(f, SpatialVec(
                         MatVec(pc.X_GM.R, MatVec(Transpose(N_FM), SubVec3(f, 0))),
                         MatVec(pc.X_GF.R, SubVec3(f, 3))))
    IN  inG(<< 0 - (b.k[1] * q[1] + b.c[1] * q[1]), 0 - (b.k[2] * q[2] + b.c[2] * q[2]),
               0 - (b.k[3] * q[3] + b.c[3] * q[3]), 0 - (b.k[4] * q[4] + b.c[4] * q[4]),
               0 - (b.k[5] * q[5] + b.c[5] * q[5]), 0 - (b.k[6] * q[6] + b.c[6] * q[6]) >>)

\* The ForceCache that ensureForceCacheValid fills in (lines 455-485):
\* f = -(fk + fv) with fk = k.q and fv = c.qdot; the moment on M is ~N*fB_q,
\* re-expressed in G, the force on M is fM_F re-expressed in G; F_GF = -F_GM;
\* F_GB and F_GA are F_GM and F_GF shifted to the body origins
\* The stiffness of an axis applied to the coordinate of the other half of q:
\* the rotational and the translational coordinates exchanged
calcForceCacheHalvesSwapped(pc, vc, b) ==
    LET q  == pc.q
        qd == vc.qdot
        fk == [i \in 1 .. 6 |-> b.k[i] * q[IF i <= 3 THEN i + 3 ELSE i - 3]]
        fv == [i \in 1 .. 6 |-> b.c[i] * qd[i]]
        N_FM == calcNForBodyXYZInBodyFrame(SubVec3(q, 0))
        entry(f, F_GM, F_GF) ==
            [f |-> f, F_GM |-> F_GM, F_GF |-> F_GF,
             F_GB |-> SpatialVec(Vec3Add(F_GM[1], Cross(pc.p_BM_G, F_GM[2])), F_GM[2]),
             F_GA |-> SpatialVec(Vec3Add(F_GF[1], Cross(pc.p_AF_G, F_GF[2])), F_GF[2])]
        reaction(f, F_GM) == entry(f, F_GM, SpatialNeg(F_GM))
        inG(f) == reaction(f, SpatialVec(
                         MatVec(pc.X_GM.R, MatVec(Transpose(N_FM), SubVec3(f, 0))),
                         MatVec(pc.X_GF.R, SubVec3(f, 3))))
    IN  inG(<< 0 - (fk[1] + fv[1]), 0 - (fk[2] + fv[2]), 0 - (fk[3] + fv[3]),
               0 - (fk[4] + fv[4]), 0 - (fk[5] + fv[5]), 0 - (fk[6] + fv[6]) >>)

calcForceCache(pc, vc, b) ==
    LET q  == pc.q
        qd == vc.qdot
        fk == [i \in 1 .. 6 |-> b.k[i] * q[i]]
        fv == [i \in 1 .. 6 |-> b.c[i] * qd[i]]
        N_FM == calcNForBodyXYZInBodyFrame(SubVec3(q, 0))
        entry(f, F_GM, F_GF) ==
            [f |-> f, F_GM |-> F_GM, F_GF |-> F_GF,
             F_GB |-> SpatialVec(Vec3Add(F_GM[1], Cross(pc.p_BM_G, F_GM[2])), F_GM[2]),
             F_GA |-> SpatialVec(Vec3Add(F_GF[1], Cross(pc.p_AF_G, F_GF[2])), F_GF[2])]
        reaction(f, F_GM) == entry(f, F_GM, SpatialNeg(F_GM))
        inG(f) == reaction(f, SpatialVec(
                         MatVec(pc.X_GM.R, MatVec(Transpose(N_FM), SubVec3(f, 0))),
                         MatVec(pc.X_GF.R, SubVec3(f, 3))))
    IN  inG(<< 0 - (fk[1] + fv[1]), 0 - (fk[2] + fv[2]), 0 - (fk[3] + fv[3]),
               0 - (fk[4] + fv[4]), 0 - (fk[5] + fv[5]), 0 - (fk[6] + fv[6]) >>)

\* The position entry first, then the potential energy (without a test of
\* its validity), then the velocity entry, then the force entry
\* The force computed from the velocity entry as it stands, without
\* ensureVelocityCacheValid
ensureForceCacheValidWithoutVelocity(cs, b, XG, VG) ==
    IF cs.forceValid THEN cs
    ELSE LET energy(c1) ==
                 [c1 EXCEPT !.potentialEnergyCache =
                                Rat(pe2Force(b.k, c1.positionCache.q, 6), 2),
                            !.potentialEnergyValid = TRUE,
                            !.computed = Count(c1, "potentialEnergy")]
             force(c3) ==
                 [c3 EXCEPT !.forceCache =
                                calcForceCache(c3.positionCache, c3.velocityCache, b),
                            !.forceValid = TRUE,
                            !.computed = Count(c3, "force")]
         IN  force(energy(ensurePositionCacheValid(cs, b, XG)))

ensureForceCacheValid(cs, b, XG, VG) ==
    IF cs.forceValid THEN cs
    ELSE LET energy(c1) ==
                 [c1 EXCEPT !.potentialEnergyCache =
                                Rat(pe2Force(b.k, c1.positionCache.q, 6), 2),
                            !.potentialEnergyValid = TRUE,
                            !.computed = Count(c1, "potentialEnergy")]
             force(c3) ==
                 [c3 EXCEPT !.forceCache =
                                calcForceCache(c3.positionCache, c3.velocityCache, b),
                            !.forceValid = TRUE,
                            !.computed = Count(c3, "force")]
         IN  force(ensureVelocityCacheValid(
                       energy(ensurePositionCacheValid(cs, b, XG)), b, XG, VG))

\* The energy filled through the force path, which also fills the velocity
\* and the force entries
ensurePotentialEnergyValidThroughForce(cs, b, XG) ==
    IF cs.potentialEnergyValid THEN cs
    ELSE ensureForceCacheValid(cs, b, XG, V_G)

ensurePotentialEnergyValid(cs, b, XG) ==
    IF cs.potentialEnergyValid THEN cs
    ELSE LET energy(c1) ==
                 [c1 EXCEPT !.potentialEnergyCache =
                                Rat(pe2Standalone(b.k, c1.positionCache.q, 6), 2),
                            !.potentialEnergyValid = TRUE,
                            !.computed = Count(c1, "potentialEnergy")]
         IN  energy(ensurePositionCacheValid(cs, b, XG))

\* LinearBushingImpl::calcForce's effect on bodyForces (lines 511-517)
BushingApply(bf, fc, b) ==
    LET bf1 == [bf EXCEPT ![b.bodyB] = SpatialAdd(@, fc.F_GB)]
    IN  [bf1 EXCEPT ![b.bodyA] = SpatialAdd(@, fc.F_GA)]


(***************************************************************************)
(* The LinearBushing's operations on a State.                              *)
(***************************************************************************)
BushingRead(cs) ==
    /\ cache' = cs
    /\ UNCHANGED <<matterVars, elementVars, accumVars, calls, evaluated, thermoVars>>

getQ == BushingRead(ensurePositionCacheValid(cache, bushing, X_G))

getX_FM == BushingRead(ensurePositionCacheValid(cache, bushing, X_G))

getQDot == BushingRead(ensureVelocityCacheValid(cache, bushing, X_G, V_G))

getV_FM == BushingRead(ensureVelocityCacheValid(cache, bushing, X_G, V_G))

getF == BushingRead(ensureForceCacheValid(cache, bushing, X_G, V_G))

getF_GF == BushingRead(ensureForceCacheValid(cache, bushing, X_G, V_G))

getF_GM == BushingRead(ensureForceCacheValid(cache, bushing, X_G, V_G))

getPotentialEnergy == BushingRead(ensurePotentialEnergyValid(cache, bushing, X_G))

BushingCalcPotentialEnergy ==
    BushingRead(ensurePotentialEnergyValid(cache, bushing, X_G))

\* One element's calcForce within an evaluation of the forces: the force
\* subsystem calls each element once per evaluation
Evaluate(name) ==
    /\ name \notin evaluated
    /\ calls' = calls + 1
    /\ evaluated' = evaluated \cup {name}

BushingCalcForce ==
    /\ Evaluate("LinearBushing")
    /\ \E cs \in {ensureForceCacheValid(cache, bushing, X_G, V_G)} :
          /\ cache' = cs
          /\ bodyForces' = BushingApply(bodyForces, cs.forceCache, bushing)
    /\ UNCHANGED <<matterVars, elementVars, particleForces, mobilityForces,
                   thermoVars>>

(***************************************************************************)
(* The State container and the caller.  A change of the coordinates        *)
(* invalidates the Position stage and every later one, a change of the     *)
(* speeds the Velocity stage and every later one; the cache entries of an  *)
(* invalidated stage lose their validity.  The position and the            *)
(* potential-energy entries belong to the Position stage, the velocity and *)
(* the force entries to the Velocity stage.  No operation reads an entry   *)
(* that is not valid, so the model forgets an invalidated entry's contents.*)
(* The State is changed between evaluations, and each evaluation starts    *)
(* from accumulators of its own.                                           *)
(***************************************************************************)
InvalidatePosition(cs) == EmptyCache

InvalidateVelocity(cs) ==
    [cs EXCEPT !.velocityCache = EmptyVelocityCache, !.velocityValid = FALSE,
               !.forceCache = EmptyForceCache, !.forceValid = FALSE,
               !.computed = NoneComputed]

\* The rotation of M in F is not at the singularity of the body-fixed XYZ
\* angles (the middle angle a quarter turn), where N does not exist
NonSingular(b, XG) == calcPositionCache(b, XG).q[2] = 0

updQ ==
    /\ calls = 0
    /\ \E body \in {bushing.bodyA, bushing.bodyB} :
       \E X \in (IF body = bushing.bodyA THEN PoseSamplesA ELSE PoseSamplesB) :
          /\ X # X_G[body]
          /\ NonSingular(bushing, [X_G EXCEPT ![body] = X])
          /\ X_G' = [X_G EXCEPT ![body] = X]
    /\ cache' = InvalidatePosition(cache)
    /\ UNCHANGED <<V_G, stateQ, stateU, matter, elementVars, accumVars, calls,
                   evaluated, thermoVars>>

updU ==
    /\ calls = 0
    /\ \E body \in {bushing.bodyA, bushing.bodyB} :
       \E V \in (IF body = bushing.bodyA THEN VelocitySamplesA
                ELSE VelocitySamplesB) :
          /\ V # V_G[body]
          /\ V_G' = [V_G EXCEPT ![body] = V]
    /\ cache' = InvalidateVelocity(cache)
    /\ UNCHANGED <<X_G, stateQ, stateU, matter, elementVars, accumVars, calls,
                   evaluated, thermoVars>>

ZeroBodyForces == [b \in Bodies |-> ZeroSpatial]

ZeroParticleForces == [i \in 1 .. NParticles |-> Zero3]

ZeroMobilityForces == [i \in 1 .. NU |-> 0]

NewEvaluation ==
    /\ calls > 0
    /\ bodyForces' = ZeroBodyForces
    /\ particleForces' = ZeroParticleForces
    /\ mobilityForces' = ZeroMobilityForces
    /\ calls' = 0
    /\ evaluated' = {}
    /\ UNCHANGED <<matterVars, elementVars, cache, thermoVars>>

AccumulatorsZero ==
    /\ bodyForces = ZeroBodyForces
    /\ particleForces = ZeroParticleForces
    /\ mobilityForces = ZeroMobilityForces
    /\ calls = 0
    /\ evaluated = {}

InitBushing ==
    /\ \E XA \in PoseSamplesA, XB \in PoseSamplesB :
          X_G = [b \in Bodies |-> CASE b = 1 -> XA [] b = 2 -> XB
                                    [] OTHER -> IdentityTransform]
    /\ V_G = [b \in Bodies |-> ZeroSpatial]
    /\ MatterIdle
    /\ twoPoint = NoTwoPoint
    /\ simple = NoSimple
    /\ returned = NoEnergy
    /\ ThermostatIdle
    /\ \E FM \in FramePairSamples,
          stiffness \in StiffnessSamples, damping \in DampingSamples :
          bushing = LinearBushingImpl(1, FM[1], 2, FM[2], stiffness, damping)
    /\ NonSingular(bushing, X_G)
    /\ cache = EmptyCache
    /\ AccumulatorsZero

NextBushing ==
    \/ getQ
    \/ getX_FM
    \/ getQDot
    \/ getV_FM
    \/ getF
    \/ getF_GF
    \/ getF_GM
    \/ getPotentialEnergy
    \/ BushingCalcPotentialEnergy
    \/ BushingCalcForce
    \/ updQ
    \/ updU
    \/ NewEvaluation

SpecBushing == InitBushing /\ [][NextBushing]_vars


(***************************************************************************)
(* Properties of the LinearBushing.                                        *)
(***************************************************************************)
\* C1 as stated: for a fixed state snapshot every cache value (position,
\* velocity, force, potential energy) is computed at most once, whatever the
\* accessors called; the potential energy is not recomputed by calcForce
\* after calcPotentialEnergy.
C1_EachCacheComputedAtMostOnce ==
    /\ cache.computed.position <= 1
    /\ cache.computed.velocity <= 1
    /\ cache.computed.force <= 1
    /\ cache.computed.potentialEnergy <= 1

\* C1 as amended: for a fixed state snapshot the position, velocity and force
\* caches are computed at most once; the potential energy is computed at most
\* twice, the second time only by ensureForceCacheValid, which fills it in
\* whether or not it is valid already.
C1_ComputedOnceButEnergyTwice ==
    /\ cache.computed.position <= 1
    /\ cache.computed.velocity <= 1
    /\ cache.computed.force <= 1
    /\ cache.computed.potentialEnergy <= 1 + cache.computed.force

\* calcForce after calcPotentialEnergy on one snapshot: the energy was
\* computed twice
C1_Witness ==
    /\ calls = 1
    /\ cache.computed.potentialEnergy = 2
    /\ cache.computed.velocity = 1

\* The frames F and M coincide in the present state
Coincident ==
    XformMul(X_G[bushing.bodyA], bushing.X_AF)
        = XformMul(X_G[bushing.bodyB], bushing.X_BM)

ForceCacheZero ==
    /\ cache.forceCache.f = Zero6
    /\ cache.forceCache.F_GM = ZeroSpatial
    /\ cache.forceCache.F_GF = ZeroSpatial
    /\ cache.forceCache.F_GB = ZeroSpatial
    /\ cache.forceCache.F_GA = ZeroSpatial

\* C2 as stated: with F and M coincident (q all zero) the generalized force,
\* the spatial forces, what calcForce adds to the two bodies and the
\* potential energy are exactly zero, for any stiffness, damping and
\* velocities.
C2_CoincidentGivesZeroForce ==
    /\ (Coincident /\ cache.forceValid) =>
           /\ cache.positionCache.q = Zero6
           /\ ForceCacheZero
           /\ calls = 1 => bodyForces = ZeroBodyForces
    /\ (Coincident /\ cache.potentialEnergyValid) =>
           cache.potentialEnergyCache = RZero

NoDampingForce ==
    \A i \in 1 .. 6 : bushing.c[i] * cache.velocityCache.qdot[i] = 0

\* C2 as amended: with F and M coincident q is all zero, the potential energy
\* is exactly zero for any stiffness, damping and velocities, and the
\* generalized force is the damping force f[i] = -c[i]*qdot[i]; the forces
\* and what calcForce adds to the two bodies are exactly zero when moreover
\* c[i]*qdot[i] = 0 on every axis.
C2_CoincidentGivesDampingForceOnly ==
    /\ (Coincident /\ cache.forceValid) =>
           /\ cache.positionCache.q = Zero6
           /\ \A i \in 1 .. 6 :
                 cache.forceCache.f[i]
                     = 0 - bushing.c[i] * cache.velocityCache.qdot[i]
           /\ NoDampingForce =>
                  /\ ForceCacheZero
                  /\ calls = 1 => bodyForces = ZeroBodyForces
    /\ (Coincident /\ cache.potentialEnergyValid) =>
           cache.potentialEnergyCache = RZero

\* calcForce has run with the frames coincident away from the Ground origin,
\* a nonzero stiffness, a nonzero damping and the bodies at relative rest
C2_Witness ==
    /\ Coincident
    /\ calls = 1
    /\ cache.potentialEnergyValid
    /\ X_G[bushing.bodyB].p # Zero3
    /\ bushing.k # Zero6
    /\ bushing.c # Zero6
    /\ V_G[bushing.bodyB] # ZeroSpatial
    /\ NoDampingForce

\* The moment about the Ground origin of a spatial force applied at the
\* origin of body b
MomentAboutGround(F, b) == Vec3Add(F[1], Cross(X_G[b].p, F[2]))

\* C3: the forces the LinearBushing applies to bodies A and B are equal and
\* opposite as a system: the linear forces sum to zero and the moments of
\* the two contributions about the Ground origin sum to zero.
C3_EqualAndOpposite ==
    cache.forceValid =>
        /\ Vec3Add(cache.forceCache.F_GB[2], cache.forceCache.F_GA[2]) = Zero3
        /\ Vec3Add(MomentAboutGround(cache.forceCache.F_GB, bushing.bodyB),
                   MomentAboutGround(cache.forceCache.F_GA, bushing.bodyA))
               = Zero3

(***************************************************************************)
(* The two-point elements: TwoPointLinearSpring, TwoPointLinearDamper and  *)
(* TwoPointConstantForce.  The three calcForce methods start from the same *)
(* geometry: the station offsets s1_G, s2_G re-expressed in Ground, the    *)
(* station locations p1_G, p2_G and the vector r_G from point 1 to point 2.*)
(***************************************************************************)
TwoPointGeometry(tp, XG) ==
    LET X_GB1 == XG[tp.body1]
        X_GB2 == XG[tp.body2]
        s1_G == MatVec(X_GB1.R, tp.station1)
        s2_G == MatVec(X_GB2.R, tp.station2)
        p1_G == Vec3Add(X_GB1.p, s1_G)
        p2_G == Vec3Add(X_GB2.p, s2_G)
    IN  [s1_G |-> s1_G, s2_G |-> s2_G, p1_G |-> p1_G, p2_G |-> p2_G,
         r_G |-> Vec3Sub(p2_G, p1_G)]

\* Vec3::norm(), where the length is an integer
HasNorm(v) == \E n \in 0 .. Dot(v, v) : n * n = Dot(v, v)

Norm(v) == CHOOSE n \in 0 .. Dot(v, v) : n * n = Dot(v, v)

\* (a/d)*v, where the quotient is exact in every component
Divisible(a, v, d) == d # 0 /\ \A i \in 1 .. 3 : (a * v[i]) % d = 0

ScaleDiv(a, v, d) == [i \in 1 .. 3 |-> (a * v[i]) \div d]

\* MobilizedBody::findStationVelocityInGround: the velocity of the body
\* origin plus the angular velocity crossed with the station offset
findStationVelocityInGround(XG, VG, body, station) ==
    Vec3Add(VG[body][2], Cross(VG[body][1], MatVec(XG[body].R, station)))

\* The states in which the spring's force has integer components (the
\* stations are then not coincident)
SpringRepresentable(tp, XG) ==
    LET r_G == TwoPointGeometry(tp, XG).r_G
    IN  /\ HasNorm(r_G)
        /\ Divisible(tp.k * (Norm(r_G) - tp.x0), r_G, Norm(r_G))

TwoPointLinearSpringImpl_calcForce(bf, tp, XG) ==
    LET g == TwoPointGeometry(tp, XG)
        d == Norm(g.r_G)
        stretch == d - tp.x0
        frcScalar == tp.k * stretch
        f1_G == ScaleDiv(frcScalar, g.r_G, d)
    IN  [bf EXCEPT ![tp.body1] = SpatialAdd(@, SpatialVec(Cross(g.s1_G, f1_G), f1_G)),
                   ![tp.body2] = SpatialSub(@, SpatialVec(Cross(g.s2_G, f1_G), f1_G))]

\* With d = r_G/|r_G| the damper's force frc*d = damping*dot(vRel, d)*d is
\* damping*dot(vRel, r_G)*r_G / dot(r_G, r_G)
DamperRepresentable(tp, XG, VG) ==
    LET r_G == TwoPointGeometry(tp, XG).r_G
        v1_G == findStationVelocityInGround(XG, VG, tp.body1, tp.station1)
        v2_G == findStationVelocityInGround(XG, VG, tp.body2, tp.station2)
        vRel == Vec3Sub(v2_G, v1_G)
    IN  Divisible(tp.damping * Dot(vRel, r_G), r_G, Dot(r_G, r_G))

\* A damper whose reaction on body 2 is taken about station 1's offset
TwoPointLinearDamperSameArm(bf, tp, XG, VG) ==
    LET g == TwoPointGeometry(tp, XG)
        v1_G == findStationVelocityInGround(XG, VG, tp.body1, tp.station1)
        v2_G == findStationVelocityInGround(XG, VG, tp.body2, tp.station2)
        vRel == Vec3Sub(v2_G, v1_G)
        f1_G == ScaleDiv(tp.damping * Dot(vRel, g.r_G), g.r_G, Dot(g.r_G, g.r_G))
    IN  [bf EXCEPT ![tp.body1] = SpatialAdd(@, SpatialVec(Cross(g.s1_G, f1_G), f1_G)),
                   ![tp.body2] = SpatialSub(@, SpatialVec(Cross(g.s1_G, f1_G), f1_G))]

TwoPointLinearDamperImpl_calcForce(bf, tp, XG, VG) ==
    LET g == TwoPointGeometry(tp, XG)
        v1_G == findStationVelocityInGround(XG, VG, tp.body1, tp.station1)
        v2_G == findStationVelocityInGround(XG, VG, tp.body2, tp.station2)
        vRel == Vec3Sub(v2_G, v1_G)
        f1_G == ScaleDiv(tp.damping * Dot(vRel, g.r_G), g.r_G, Dot(g.r_G, g.r_G))
    IN  [bf EXCEPT ![tp.body1] = SpatialAdd(@, SpatialVec(Cross(g.s1_G, f1_G), f1_G)),
                   ![tp.body2] = SpatialSub(@, SpatialVec(Cross(g.s2_G, f1_G), f1_G))]

ConstantForceRepresentable(tp, XG) ==
    LET r_G == TwoPointGeometry(tp, XG).r_G
    IN  /\ HasNorm(r_G)
        /\ Divisible(tp.force, r_G, Norm(r_G))

\* A constant force with the signs of the spring's: f2_G added to body 1
\* and subtracted from body 2
TwoPointConstantForceImpl_calcForceAttracting(bf, tp, XG) ==
    LET g == TwoPointGeometry(tp, XG)
        x == Norm(g.r_G)
        f2_G == ScaleDiv(tp.force, g.r_G, x)
    IN  [bf EXCEPT ![tp.body1] = SpatialAdd(@, SpatialVec(Cross(g.s1_G, f2_G), f2_G)),
                   ![tp.body2] = SpatialSub(@, SpatialVec(Cross(g.s2_G, f2_G), f2_G))]

TwoPointConstantForceImpl_calcForce(bf, tp, XG) ==
    LET g == TwoPointGeometry(tp, XG)
        x == Norm(g.r_G)
        f2_G == ScaleDiv(tp.force, g.r_G, x)
    IN  [bf EXCEPT ![tp.body1] = SpatialSub(@, SpatialVec(Cross(g.s1_G, f2_G), f2_G)),
                   ![tp.body2] = SpatialAdd(@, SpatialVec(Cross(g.s2_G, f2_G), f2_G))]

TwoPointLinearSpringCalcForce ==
    /\ Evaluate("TwoPointLinearSpring")
    /\ SpringRepresentable(twoPoint, X_G)
    /\ bodyForces' = TwoPointLinearSpringImpl_calcForce(bodyForces, twoPoint, X_G)
    /\ UNCHANGED <<matterVars, elementVars, cache, particleForces, mobilityForces,
                   thermoVars>>

TwoPointLinearDamperCalcForce ==
    /\ Evaluate("TwoPointLinearDamper")
    /\ DamperRepresentable(twoPoint, X_G, V_G)
    /\ bodyForces' = TwoPointLinearDamperImpl_calcForce(bodyForces, twoPoint, X_G, V_G)
    /\ UNCHANGED <<matterVars, elementVars, cache, particleForces, mobilityForces,
                   thermoVars>>

TwoPointConstantForceCalcForce ==
    /\ Evaluate("TwoPointConstantForce")
    /\ ConstantForceRepresentable(twoPoint, X_G)
    /\ bodyForces' = TwoPointConstantForceImpl_calcForce(bodyForces, twoPoint, X_G)
    /\ UNCHANGED <<matterVars, elementVars, cache, particleForces, mobilityForces,
                   thermoVars>>

TwoPointPositions == { <<2, 0, 0>>, <<0, 2, 0>>, <<3, 4, 0>>, <<4, 4, 0>> }

StationSamples == { Mask3(S, d) : S \in { {}, {1} }, d \in 1 .. MaxCoord }

TwoPointSamples ==
    { [body1 |-> 1, station1 |-> s1, body2 |-> 2, station2 |-> s2,
       k |-> a, x0 |-> x0, damping |-> a, force |-> sign * a] :
          s1 \in StationSamples, s2 \in StationSamples, a \in 1 .. MaxCoef,
          x0 \in 0 .. 1, sign \in {-1, 1} }

InitTwoPoint ==
    /\ \E XA \in PoseSamplesA, R \in {Identity33, RotZ(1)}, p \in TwoPointPositions :
          X_G = [b \in Bodies |-> CASE b = 1 -> XA
                                    [] b = 2 -> Xform(R, p)
                                    [] OTHER -> IdentityTransform]
    /\ \E VA \in VelocitySamplesA, VB \in VelocitySamplesB :
          V_G = [b \in Bodies |-> CASE b = 1 -> VA
                                    [] b = 2 -> VB
                                    [] OTHER -> ZeroSpatial]
    /\ MatterIdle
    /\ twoPoint \in TwoPointSamples
    /\ bushing = NoBushing
    /\ simple = NoSimple
    /\ returned = NoEnergy
    /\ cache = EmptyCache
    /\ ThermostatIdle
    /\ AccumulatorsZero

NextTwoPoint ==
    \/ TwoPointLinearSpringCalcForce
    \/ TwoPointLinearDamperCalcForce
    \/ TwoPointConstantForceCalcForce
    \/ NewEvaluation

SpecTwoPoint == InitTwoPoint /\ [][NextTwoPoint]_vars

\* C4: after one two-point element's calcForce, with f the linear force on
\* body 1, body 1 has received the spatial force (s1_G x f, f) and body 2
\* the spatial force (-(s2_G x f), -f), f is parallel to the line between
\* the stations, and the two moments about the Ground origin sum to zero.
C4_TwoPointEqualAndOpposite ==
    calls = 1 =>
        LET g == TwoPointGeometry(twoPoint, X_G)
            f == bodyForces[twoPoint.body1][2]
        IN  /\ bodyForces[twoPoint.body1] = SpatialVec(Cross(g.s1_G, f), f)
            /\ bodyForces[twoPoint.body2] =
                   SpatialVec(Vec3Neg(Cross(g.s2_G, f)), Vec3Neg(f))
            /\ Cross(g.r_G, f) = Zero3
            /\ Vec3Add(MomentAboutGround(bodyForces[twoPoint.body1], twoPoint.body1),
                       MomentAboutGround(bodyForces[twoPoint.body2], twoPoint.body2))
                   = Zero3

\* The damper has applied a nonzero force whose moments about the two body
\* origins are nonzero and differ
C4_Witness ==
    /\ calls = 1
    /\ evaluated = {"TwoPointLinearDamper"}
    /\ bodyForces[twoPoint.body1][2] # Zero3
    /\ bodyForces[twoPoint.body1][1] # Zero3
    /\ bodyForces[twoPoint.body2][1] # Zero3
    /\ bodyForces[twoPoint.body1][1] # Vec3Neg(bodyForces[twoPoint.body2][1])

\* TwoPointConstantForce's calcForce alone has run on zero accumulators
ConstantForceAlone == calls = 1 /\ evaluated = {"TwoPointConstantForce"}

\* C13 as stated: for a positive force the two bodies are pulled together:
\* the linear force added to body 1 points from station 1 toward station 2,
\* the one added to body 2 from station 2 toward station 1, and both have
\* the magnitude force.
C13_PositiveForcePullsTogether ==
    (ConstantForceAlone /\ twoPoint.force > 0) =>
        LET r_G == TwoPointGeometry(twoPoint, X_G).r_G
            f1 == bodyForces[twoPoint.body1][2]
            f2 == bodyForces[twoPoint.body2][2]
        IN  /\ Cross(r_G, f1) = Zero3 /\ Dot(f1, r_G) > 0
            /\ Cross(r_G, f2) = Zero3 /\ Dot(f2, r_G) < 0
            /\ Dot(f1, f1) = twoPoint.force * twoPoint.force
            /\ Dot(f2, f2) = twoPoint.force * twoPoint.force

\* C13 as amended: the linear force added to body 1 is -force*d and the one
\* added to body 2 is +force*d, with d the unit vector from station 1 to
\* station 2: a positive force pushes the two bodies apart, a negative one
\* pulls them together, and the magnitude is |force| in every state.
C13_PositiveForcePushesApart ==
    ConstantForceAlone =>
        LET r_G == TwoPointGeometry(twoPoint, X_G).r_G
            f1 == bodyForces[twoPoint.body1][2]
            f2 == bodyForces[twoPoint.body2][2]
        IN  /\ Cross(r_G, f1) = Zero3 /\ Cross(r_G, f2) = Zero3
            /\ f1 = Vec3Neg(f2)
            /\ Vec3Scale(Norm(r_G), f2) = Vec3Scale(twoPoint.force, r_G)
            /\ twoPoint.force > 0 => (Dot(f1, r_G) < 0 /\ Dot(f2, r_G) > 0)
            /\ twoPoint.force < 0 => (Dot(f1, r_G) > 0 /\ Dot(f2, r_G) < 0)
            /\ Dot(f1, f1) = twoPoint.force * twoPoint.force
            /\ Dot(f2, f2) = twoPoint.force * twoPoint.force

\* A positive constant force has been applied between stations away from
\* the body origins, body 2 rotated
C13_Witness ==
    /\ ConstantForceAlone
    /\ twoPoint.force > 0
    /\ twoPoint.station1 # Zero3
    /\ twoPoint.station2 # Zero3
    /\ X_G[twoPoint.body2].R # Identity33
    /\ Dot(bodyForces[twoPoint.body2][2], TwoPointGeometry(twoPoint, X_G).r_G) > 0

(***************************************************************************)
(* Force::Thermostat, a Nose'-Hoover chain.  The handle holds Boltzmann's  *)
(* constant and the defaults; the State holds three discrete variables     *)
(* (chain count, bath temperature, relaxation time), allocated by          *)
(* realizeTopology, and the auxiliary continuous block z of 2*numChains    *)
(* entries, allocated by realizeModel, with its derivatives zdot.          *)
(***************************************************************************)
StageEmpty == 0

StageTopology == 1

StageModel == 2

StageInstance == 3

StageVelocity == 6

StageDynamics == 7

Min(a, b) == IF a < b THEN a ELSE b

Max(a, b) == IF a > b THEN a ELSE b

\* State::invalidateAll(g): the state is left realized through the stage
\* before g
InvalidateStage(s, g) == Min(s, g - 1)

ThermostatImpl(boltzmannsConstant, bathTemperature, relaxationTime, numChains) ==
    [constructed |-> TRUE, Kb |-> boltzmannsConstant,
     defaultNumChains |-> numChains, defaultBathTemp |-> bathTemperature,
     defaultRelaxationTime |-> relaxationTime]

\* The operations that the argument check has stopped leave everything but
\* the report as it was
Reported(method) ==
    /\ err' = method
    /\ UNCHANGED <<thermostat, adopted, handles, topologyValid, stage, dv, z, zdot,
                   thermoCache>>

\* The body of every constructor, after Force(new ...Impl(...)) has given
\* the handle its Impl: updImpl().setForceSubsystem(forces,
\* forces.adoptForce(*this)).  A handle that holds an Impl is left out of
\* the subsystem and unbound
ConstructUnregistered(kind) ==
    /\ adopted' = adopted
    /\ handles' = [handles EXCEPT ![kind] = [impl |-> TRUE, forceIndex |-> InvalidIndex]]
    /\ topologyValid' = FALSE

\* The body of every constructor, after Force(new ...Impl(...)) has given
\* the handle its Impl: updImpl().setForceSubsystem(forces,
\* forces.adoptForce(*this)); adopting a force invalidates the topology
Construct(kind) ==
    /\ adopted' = adoptForce(adopted, kind)
    /\ handles' = setForceSubsystem(handles, kind, Len(adopted))
    /\ topologyValid' = FALSE

ThermostatFrame ==
    UNCHANGED <<matterVars, elementVars, cache, accumVars, calls, evaluated>>

\* The chain counts a thermostat is built with
DefaultChainCounts == { 1, MaxChains - 1, MaxChains }

\* The constructor: the implementation object is created first, with a
\* default chain count the source does not show; the three checks come
\* before adoptForce, and an exception destroys the object
Thermostat(boltzmannsConstant, bathTemperature, relaxationTime) ==
    /\ ~thermostat.constructed
    /\ IF boltzmannsConstant > 0 /\ bathTemperature > 0 /\ relaxationTime > 0
       THEN /\ \E numChains \in DefaultChainCounts :
                  thermostat' = ThermostatImpl(boltzmannsConstant, bathTemperature,
                                               relaxationTime, numChains)
            /\ Construct("Thermostat")
            /\ err' = ""
            /\ UNCHANGED <<stage, dv, z, zdot, thermoCache>>
       ELSE Reported("ctor")
    /\ ThermostatFrame

setDefaultNumChains(numChains) ==
    /\ thermostat.constructed
    /\ IF numChains > 0
       THEN /\ topologyValid' = FALSE
            /\ thermostat' = [thermostat EXCEPT !.defaultNumChains = numChains]
            /\ err' = ""
            /\ UNCHANGED <<adopted, handles, stage, dv, z, zdot, thermoCache>>
       ELSE Reported("setDefaultNumChains")
    /\ ThermostatFrame

\* A setter that lets a zero temperature through
setDefaultBathTemperatureNonNegative(bathTemperature) ==
    /\ thermostat.constructed
    /\ IF bathTemperature >= 0
       THEN /\ topologyValid' = FALSE
            /\ thermostat' = [thermostat EXCEPT !.defaultBathTemp = bathTemperature]
            /\ err' = ""
            /\ UNCHANGED <<adopted, handles, stage, dv, z, zdot, thermoCache>>
       ELSE Reported("setDefaultBathTemperature")
    /\ ThermostatFrame

setDefaultBathTemperature(bathTemperature) ==
    /\ thermostat.constructed
    /\ IF bathTemperature > 0
       THEN /\ topologyValid' = FALSE
            /\ thermostat' = [thermostat EXCEPT !.defaultBathTemp = bathTemperature]
            /\ err' = ""
            /\ UNCHANGED <<adopted, handles, stage, dv, z, zdot, thermoCache>>
       ELSE Reported("setDefaultBathTemperature")
    /\ ThermostatFrame

setDefaultRelaxationTime(relaxationTime) ==
    /\ thermostat.constructed
    /\ IF relaxationTime > 0
       THEN /\ topologyValid' = FALSE
            /\ thermostat' = [thermostat EXCEPT !.defaultRelaxationTime = relaxationTime]
            /\ err' = ""
            /\ UNCHANGED <<adopted, handles, stage, dv, z, zdot, thermoCache>>
       ELSE Reported("setDefaultRelaxationTime")
    /\ ThermostatFrame

\* The discrete variables as realizeTopology allocates them: each starts
\* from its default
ThermostatImpl_realizeTopology(th) ==
    [numChains |-> th.defaultNumChains, bathTemp |-> th.defaultBathTemp,
     relaxationTime |-> th.defaultRelaxationTime]

\* System::realizeTopology builds a fresh State, realized through Topology
realizeTopology ==
    /\ thermostat.constructed
    /\ ~topologyValid
    /\ topologyValid' = TRUE
    /\ dv' = ThermostatImpl_realizeTopology(thermostat)
    /\ stage' = StageTopology
    /\ z' = <<>>
    /\ zdot' = <<>>
    /\ thermoCache' = NoThermoCache
    /\ err' = ""
    /\ UNCHANGED <<thermostat, adopted, handles>>
    /\ ThermostatFrame

\* The chain count is a discrete variable allocated with Stage::Model: a
\* write access invalidates the Model stage.  The continuous variables are
\* out of reach until realizeModel allocates them again.
setNumChains(numChains) ==
    /\ stage >= StageTopology
    /\ IF numChains > 0
       THEN /\ dv' = [dv EXCEPT !.numChains = numChains]
            /\ stage' = InvalidateStage(stage, StageModel)
            /\ err' = ""
            /\ UNCHANGED <<thermostat, adopted, handles, topologyValid, z, zdot, thermoCache>>
       ELSE Reported("setNumChains")
    /\ ThermostatFrame

\* The bath temperature and the relaxation time are discrete variables
\* allocated with Stage::Instance
setBathTemperature(bathTemperature) ==
    /\ stage >= StageTopology
    /\ IF bathTemperature > 0
       THEN /\ dv' = [dv EXCEPT !.bathTemp = bathTemperature]
            /\ stage' = InvalidateStage(stage, StageInstance)
            /\ err' = ""
            /\ UNCHANGED <<thermostat, adopted, handles, topologyValid, z, zdot, thermoCache>>
       ELSE Reported("setBathTemperature")
    /\ ThermostatFrame

setRelaxationTime(relaxationTime) ==
    /\ stage >= StageTopology
    /\ IF relaxationTime > 0
       THEN /\ dv' = [dv EXCEPT !.relaxationTime = relaxationTime]
            /\ stage' = InvalidateStage(stage, StageInstance)
            /\ err' = ""
            /\ UNCHANGED <<thermostat, adopted, handles, topologyValid, z, zdot, thermoCache>>
       ELSE Reported("setRelaxationTime")
    /\ ThermostatFrame

\* realizeModel with the chain count taken from the default, not the State
ThermostatImpl_realizeModelFromDefault(d, th) ==
    [i \in 1 .. 2 * th.defaultNumChains |-> 0]

\* zInit(2*nChains, Zero), the block that allocateZ adds to the State
ThermostatImpl_realizeModel(d, th) ==
    LET nChains == d.numChains
    IN  [i \in 1 .. 2 * nChains |-> 0]

realizeModel ==
    /\ topologyValid
    /\ stage = StageTopology
    /\ z' = ThermostatImpl_realizeModel(dv, thermostat)
    /\ zdot' = [i \in 1 .. Len(z') |-> RZero]
    /\ stage' = StageModel
    /\ err' = ""
    /\ UNCHANGED <<thermostat, adopted, handles, topologyValid, dv, thermoCache>>
    /\ ThermostatFrame

\* updZ(s, i): a write access to the continuous variables invalidates the
\* Dynamics stage
initializeChainState ==
    /\ stage >= StageModel
    /\ LET nChains == dv.numChains
       IN  z' = [i \in 1 .. Len(z) |-> IF i <= 2 * nChains THEN 0 ELSE z[i]]
    /\ stage' = InvalidateStage(stage, StageDynamics)
    /\ err' = ""
    /\ UNCHANGED <<thermostat, adopted, handles, topologyValid, dv, zdot, thermoCache>>
    /\ ThermostatFrame

\* setChainState without the size check: the entries that zv has are copied
setChainStateUnchecked(zv) ==
    /\ stage >= StageModel
    /\ z' = [i \in 1 .. Len(z) |-> IF i <= Len(zv) THEN zv[i] ELSE z[i]]
    /\ stage' = InvalidateStage(stage, StageDynamics)
    /\ err' = ""
    /\ UNCHANGED <<thermostat, adopted, handles, topologyValid, dv, zdot, thermoCache>>
    /\ ThermostatFrame

setChainState(zv) ==
    /\ stage >= StageModel
    /\ LET nChains == dv.numChains
       IN  IF Len(zv) = 2 * nChains
           THEN /\ z' = [i \in 1 .. Len(z) |-> IF i <= 2 * nChains THEN zv[i] ELSE z[i]]
                /\ stage' = InvalidateStage(stage, StageDynamics)
                /\ err' = ""
                /\ UNCHANGED <<thermostat, adopted, handles, topologyValid, dv, zdot,
                               thermoCache>>
           ELSE Reported("setChainState")
    /\ ThermostatFrame

\* SimbodyMatterSubsystem::calcMV: the product of the mass matrix and v
RECURSIVE RowSum(_, _, _)
RowSum(row, v, n) == IF n = 0 THEN 0 ELSE RowSum(row, v, n - 1) + row[n] * v[n]

calcMV(M, v) == [i \in 1 .. NU |-> RowSum(M[i], v, NU)]

getNumDOFs(mat) == Max(1, NU - mat.nUDotErr)

\* The momentum M*u and the kinetic energy ~u*M*u/2
ThermostatImpl_realizeVelocity(mat, u) ==
    LET Mu == calcMV(mat.M, u)
    IN  [momentum |-> Mu, KE |-> Rat(RowSum(u, Mu, NU), 2)]

realizeVelocity ==
    /\ topologyValid
    /\ stage >= StageModel
    /\ stage < StageVelocity
    /\ thermoCache' = ThermostatImpl_realizeVelocity(matter, stateU)
    /\ stage' = StageVelocity
    /\ err' = ""
    /\ UNCHANGED <<thermostat, adopted, handles, topologyValid, dv, z, zdot>>
    /\ ThermostatFrame

\* The loop with Ndofs left at N for every k
RECURSIVE chainLoopAllN(_, _, _, _, _, _)
chainLoopAllN(zd, zs, k, m, Ndofs, oot2) ==
    IF k >= m THEN zd
    ELSE LET zk1 == zs[k]
             zk == zs[k + 1]
             zd1 == [zd EXCEPT ![k] = RSub(@, RInt(zk1 * zk))]
             zd2 == [zd1 EXCEPT ![k + 1] = RSub(RInt(Ndofs * zk1 * zk1), oot2)]
         IN  chainLoopAllN(zd2, zs, k + 1, m, Ndofs, oot2)

\* The loop of realizeDynamics over k = 1 .. m-1, on the derivative block
\* zd; the source's index k is the sequence index k+1
RECURSIVE chainLoop(_, _, _, _, _, _)
chainLoop(zd, zs, k, m, Ndofs, oot2) ==
    IF k >= m THEN zd
    ELSE LET zk1 == zs[k]
             zk == zs[k + 1]
             zd1 == [zd EXCEPT ![k] = RSub(@, RInt(zk1 * zk))]
             zd2 == [zd1 EXCEPT ![k + 1] = RSub(RInt(Ndofs * zk1 * zk1), oot2)]
         IN  chainLoop(zd2, zs, k + 1, m, 1, oot2)

\* The first slot accumulated (+=) instead of assigned: what the slot held
\* before the call stays in the result
ThermostatImpl_realizeDynamicsAccumulating(zd, zs, d, Kb, KE, N) ==
    LET t == d.relaxationTime
        oot2 == Rat(1, t * t)
        m == d.numChains
        Eb == Rat(Kb * d.bathTemp, 2)
        E == RDiv(KE, RInt(N))
        zd0 == [zd EXCEPT ![1] = RAdd(@, RMul(RSub(RDiv(E, Eb), RInt(1)), oot2))]
        zd1 == chainLoop(zd0, zs, 1, m, N, oot2)
    IN  [i \in 1 .. Len(zd1) |-> IF i > m /\ i <= 2 * m THEN RInt(zs[i - m])
                                 ELSE zd1[i]]

ThermostatImpl_realizeDynamics(zd, zs, d, Kb, KE, N) ==
    LET t == d.relaxationTime
        oot2 == Rat(1, t * t)
        m == d.numChains
        Eb == Rat(Kb * d.bathTemp, 2)
        E == RDiv(KE, RInt(N))
        zd0 == [zd EXCEPT ![1] = RMul(RSub(RDiv(E, Eb), RInt(1)), oot2)]
        zd1 == chainLoop(zd0, zs, 1, m, N, oot2)
    IN  [i \in 1 .. Len(zd1) |-> IF i > m /\ i <= 2 * m THEN RInt(zs[i - m])
                                 ELSE zd1[i]]

realizeDynamics ==
    /\ topologyValid
    /\ stage = StageVelocity
    /\ zdot' = ThermostatImpl_realizeDynamics(zdot, z, dv, thermostat.Kb,
                                              thermoCache.KE, getNumDOFs(matter))
    /\ stage' = StageDynamics
    /\ err' = ""
    /\ UNCHANGED <<thermostat, adopted, handles, topologyValid, dv, z, thermoCache>>
    /\ ThermostatFrame

\* A thermostat that adds its friction instead of subtracting it
ThermostatImpl_calcForceAdded(mf, zs, mat, u) ==
    LET p == calcMV(mat.M, u)
    IN  [i \in 1 .. NU |-> mf[i] + zs[1] * p[i]]

ThermostatImpl_calcForce(mf, zs, mat, u) ==
    LET p == calcMV(mat.M, u)
    IN  [i \in 1 .. NU |-> mf[i] - zs[1] * p[i]]

ThermostatCalcForce ==
    /\ Evaluate("Thermostat")
    /\ stage >= StageVelocity
    /\ mobilityForces' = ThermostatImpl_calcForce(mobilityForces, z, matter, stateU)
    /\ UNCHANGED <<matterVars, elementVars, cache, bodyForces, particleForces,
                   thermoVars>>

(***************************************************************************)
(* The mobility elements, ConstantForce, ConstantTorque, GlobalDamper and  *)
(* UniformGravity.  Every mobilized body of the model has one mobility:    *)
(* coordinate 0 of body b is q[b] and u[b].                                *)
(***************************************************************************)
getOneQ(q, body, coordinate) == q[body + coordinate]

getOneU(u, body, coordinate) == u[body + coordinate]

applyOneMobilityForce(mf, body, coordinate, f) ==
    [mf EXCEPT ![body + coordinate] = @ + f]

MobilityLinearSpringImpl_calcForce(mf, el, q) ==
    LET frc == 0 - el.k * (getOneQ(q, el.body, el.coordinate) - el.x0)
    IN  applyOneMobilityForce(mf, el.body, el.coordinate, frc)

MobilityLinearDamperImpl_calcForce(mf, el, u) ==
    LET frc == 0 - el.damping * getOneU(u, el.body, el.coordinate)
    IN  applyOneMobilityForce(mf, el.body, el.coordinate, frc)

MobilityConstantForceImpl_calcForce(mf, el) ==
    applyOneMobilityForce(mf, el.body, el.coordinate, el.force)

ConstantForceImpl_calcForce(bf, el, XG) ==
    LET station_G == MatVec(XG[el.body].R, el.station)
    IN  [bf EXCEPT ![el.body] = SpatialAdd(@, SpatialVec(Cross(station_G, el.force),
                                                         el.force))]

\* A torque that replaces the moment accumulated so far
ConstantTorqueImpl_calcForceOverwriting(bf, el) ==
    [bf EXCEPT ![el.body] = SpatialVec(el.torque, @[2])]

ConstantTorqueImpl_calcForce(bf, el) ==
    [bf EXCEPT ![el.body] = SpatialVec(Vec3Add(@[1], el.torque), @[2])]

GlobalDamperImpl_calcForce(mf, el, u) ==
    [i \in 1 .. NU |-> mf[i] - el.damping * u[i]]

\* UniformGravity: g*m[i] on every particle, and on every body but Ground
\* the weight m*g at the mass center
UniformGravityParticleForces(pf, el, mat) ==
    [i \in 1 .. NParticles |-> Vec3Add(pf[i], Vec3Scale(mat.particleMass[i], el.g))]

UniformGravityBodyForces(bf, el, mat, XG) ==
    [i \in Bodies |->
        IF i >= 1
        THEN LET com_B_G == MatVec(XG[i].R, mat.com[i])
                 frc_G == Vec3Scale(mat.mass[i], el.g)
             IN  SpatialAdd(bf[i], SpatialVec(Cross(com_B_G, frc_G), frc_G))
        ELSE bf[i]]

MobilityLinearSpringCalcForce ==
    /\ Evaluate("MobilityLinearSpring")
    /\ mobilityForces' =
           MobilityLinearSpringImpl_calcForce(mobilityForces, simple.mobilitySpring, stateQ)
    /\ UNCHANGED <<matterVars, elementVars, cache, bodyForces, particleForces,
                   thermoVars>>

MobilityLinearDamperCalcForce ==
    /\ Evaluate("MobilityLinearDamper")
    /\ mobilityForces' =
           MobilityLinearDamperImpl_calcForce(mobilityForces, simple.mobilityDamper, stateU)
    /\ UNCHANGED <<matterVars, elementVars, cache, bodyForces, particleForces,
                   thermoVars>>

MobilityConstantForceCalcForce ==
    /\ Evaluate("MobilityConstantForce")
    /\ mobilityForces' =
           MobilityConstantForceImpl_calcForce(mobilityForces, simple.mobilityConstant)
    /\ UNCHANGED <<matterVars, elementVars, cache, bodyForces, particleForces,
                   thermoVars>>

ConstantForceCalcForce ==
    /\ Evaluate("ConstantForce")
    /\ bodyForces' = ConstantForceImpl_calcForce(bodyForces, simple.constantForce, X_G)
    /\ UNCHANGED <<matterVars, elementVars, cache, particleForces, mobilityForces,
                   thermoVars>>

ConstantTorqueCalcForce ==
    /\ Evaluate("ConstantTorque")
    /\ bodyForces' = ConstantTorqueImpl_calcForce(bodyForces, simple.constantTorque)
    /\ UNCHANGED <<matterVars, elementVars, cache, particleForces, mobilityForces,
                   thermoVars>>

GlobalDamperCalcForce ==
    /\ Evaluate("GlobalDamper")
    /\ mobilityForces' = GlobalDamperImpl_calcForce(mobilityForces, simple.globalDamper,
                                                    stateU)
    /\ UNCHANGED <<matterVars, elementVars, cache, bodyForces, particleForces,
                   thermoVars>>

UniformGravityCalcForce ==
    /\ Evaluate("UniformGravity")
    /\ particleForces' = UniformGravityParticleForces(particleForces, simple.gravity, matter)
    /\ bodyForces' = UniformGravityBodyForces(bodyForces, simple.gravity, matter, X_G)
    /\ UNCHANGED <<matterVars, elementVars, cache, mobilityForces, thermoVars>>

(***************************************************************************)
(* The thermostat's parameters: construction, the defaults and the         *)
(* discrete state variables.                                               *)
(***************************************************************************)
KbSamples == {0 - 1, 0, 1}

ParamSamples == { 0 - 1, 0, 1, MaxParam }

ChainCountSamples == { 0 - 1, 0, 1, MaxChains }

\* The parts of the state the thermostat does not use
ThermostatAlone ==
    /\ X_G = [b \in Bodies |-> IdentityTransform]
    /\ V_G = [b \in Bodies |-> ZeroSpatial]
    /\ stateQ = [i \in 1 .. NU |-> 0]
    /\ bushing = NoBushing
    /\ twoPoint = NoTwoPoint
    /\ returned = NoEnergy
    /\ cache = EmptyCache
    /\ AccumulatorsZero

InitThermostat ==
    /\ ThermostatAlone
    /\ stateU = [i \in 1 .. NU |-> 0]
    /\ matter = DefaultMatter
    /\ simple = NoSimple
    /\ ThermostatIdle

NextThermostat ==
    \/ \E Kb \in KbSamples, T \in ParamSamples, tau \in ParamSamples :
          Thermostat(Kb, T, tau)
    \/ \E numChains \in ChainCountSamples : setDefaultNumChains(numChains)
    \/ \E T \in ParamSamples : setDefaultBathTemperature(T)
    \/ \E tau \in ParamSamples : setDefaultRelaxationTime(tau)
    \/ realizeTopology
    \/ realizeModel
    \/ \E numChains \in ChainCountSamples : setNumChains(numChains)
    \/ \E T \in ParamSamples : setBathTemperature(T)
    \/ \E tau \in ParamSamples : setRelaxationTime(tau)

SpecThermostat == InitThermostat /\ [][NextThermostat]_vars

\* A step that reports an error and stores, invalidates and registers nothing
Rejected ==
    /\ err' # ""
    /\ thermostat' = thermostat
    /\ dv' = dv
    /\ topologyValid' = topologyValid
    /\ stage' = stage
    /\ adopted' = adopted
    /\ handles' = handles

\* C5: the constructor, the three setDefault operations and the three State
\* setters, given a zero or negative value, report an error and leave the
\* defaults, the State's values, the topology cache and the force
\* subsystem's list of elements as they were; the stored values stay positive.
C5_NonPositiveValueRejected ==
    [][ /\ \A Kb \in KbSamples, T \in ParamSamples, tau \in ParamSamples :
              ((Kb <= 0 \/ T <= 0 \/ tau <= 0) /\ Thermostat(Kb, T, tau)) => Rejected
        /\ \A v \in ChainCountSamples :
              (v <= 0 /\ (setDefaultNumChains(v) \/ setNumChains(v))) => Rejected
        /\ \A v \in ParamSamples :
              (v <= 0 /\ (\/ setDefaultBathTemperature(v)
                          \/ setDefaultRelaxationTime(v)
                          \/ setBathTemperature(v)
                          \/ setRelaxationTime(v))) => Rejected
        /\ thermostat'.constructed =>
              /\ thermostat'.Kb > 0
              /\ thermostat'.defaultNumChains > 0
              /\ thermostat'.defaultBathTemp > 0
              /\ thermostat'.defaultRelaxationTime > 0
        /\ stage' >= StageTopology =>
              dv'.numChains > 0 /\ dv'.bathTemp > 0 /\ dv'.relaxationTime > 0
      ]_vars

\* setDefaultBathTemperature has been refused while the topology cache was
\* valid and the Model stage realized, with values other than the first ones
C5_Witness ==
    /\ err = "setDefaultBathTemperature"
    /\ topologyValid
    /\ stage = StageModel
    /\ thermostat.defaultBathTemp = MaxParam
    /\ adopted = <<"Thermostat">>

(***************************************************************************)
(* The thermostat's chain state: its allocation and its assignment.        *)
(***************************************************************************)
ChainVector(a, b, len) == [i \in 1 .. len |-> a * i + b]

ChainVectors ==
    { ChainVector(ab[1], ab[2], len) :
         ab \in { <<0, 0>>, <<1, 0>>, <<0 - 1, 2>> }, len \in 0 .. 2 * MaxChains }

ThermostatBuilt(Kb, T, tau, numChains) ==
    /\ thermostat = ThermostatImpl(Kb, T, tau, numChains)
    /\ adopted = <<"Thermostat">>
    /\ handles = setForceSubsystem(NoneRegistered, "Thermostat", 0)
    /\ err = ""

InitChain ==
    /\ ThermostatAlone
    /\ stateU = [i \in 1 .. NU |-> 0]
    /\ matter = DefaultMatter
    /\ simple = NoSimple
    /\ \E numChains \in 1 .. MaxChains : ThermostatBuilt(1, 1, 1, numChains)
    /\ topologyValid = FALSE
    /\ stage = StageEmpty
    /\ dv = NoDiscreteVariables
    /\ z = <<>>
    /\ zdot = <<>>
    /\ thermoCache = NoThermoCache

NextChain ==
    \/ \E numChains \in 0 .. MaxChains : setDefaultNumChains(numChains)
    \/ realizeTopology
    \/ \E numChains \in 0 .. MaxChains : setNumChains(numChains)
    \/ realizeModel
    \/ \E zv \in ChainVectors : setChainState(zv)
    \/ initializeChainState

SpecChain == InitChain /\ [][NextChain]_vars

\* C6: setChainState(s, zv) with a vector whose length is not 2*numChains
\* reports an error and changes no entry of the chain state; with a vector
\* of that length it sets each of the 2*numChains entries to zv's.
C6_SetChainStateChecksLength ==
    [][ \A zv \in ChainVectors :
           setChainState(zv) =>
              IF Len(zv) # 2 * dv.numChains
              THEN err' # "" /\ z' = z
              ELSE /\ err' = ""
                   /\ Len(z') = 2 * dv.numChains
                   /\ \A i \in 1 .. 2 * dv.numChains : z'[i] = zv[i]
      ]_vars

\* A vector of the wrong length has been refused after another had been
\* stored, and the stored one is still there
C6_Witness ==
    /\ err = "setChainState"
    /\ stage >= StageModel
    /\ dv.numChains >= 2
    /\ z = ChainVector(1, 0, 2 * dv.numChains)

\* C7: whenever the Model stage is realized the auxiliary block has
\* 2*numChains entries, and the step that realizes the Model stage leaves
\* every entry zero.
C7_BlockSizedByChainCount ==
    [][ /\ stage' >= StageModel => Len(z') = 2 * dv'.numChains
        /\ (stage < StageModel /\ stage' >= StageModel) =>
              \A i \in 1 .. Len(z') : z'[i] = 0
      ]_vars

\* The Model stage has been realized with a chain count set in the State,
\* other than the default
C7_Witness ==
    /\ stage = StageModel
    /\ dv.numChains # thermostat.defaultNumChains
    /\ dv.numChains = MaxChains
    /\ z = [i \in 1 .. 2 * MaxChains |-> 0]
    /\ err = ""

(***************************************************************************)
(* The thermostat's dynamics: the momentum and kinetic energy, the chain   *)
(* derivatives and the force.                                              *)
(***************************************************************************)
MatterSamples ==
    { [DefaultMatter EXCEPT !.M = Me[1], !.nUDotErr = Me[2]] :
         Me \in { << << <<1, 0>>, <<0, 1>> >>, 0 >>,
                  << << <<2, 1>>, <<1, 1>> >>, 0 >>,
                  << << <<2, 1>>, <<1, 1>> >>, 2 >> } }

USamples == { <<0, 0>>, <<1, 0>>, <<1, 2>> }

InitDynamics ==
    /\ ThermostatAlone
    /\ stateU \in USamples
    /\ matter \in MatterSamples
    /\ simple = SimpleElements(1)
    /\ \E Kb \in {1, MaxParam}, T \in {1, MaxParam}, tau \in {1, MaxParam},
          numChains \in DefaultChainCounts : ThermostatBuilt(Kb, T, tau, numChains)
    /\ topologyValid = TRUE
    /\ stage = StageModel
    /\ dv = ThermostatImpl_realizeTopology(thermostat)
    /\ z = ThermostatImpl_realizeModel(dv, thermostat)
    /\ zdot = [i \in 1 .. Len(z) |-> RZero]
    /\ thermoCache = NoThermoCache

NextDynamics ==
    \/ \E zv \in { v \in ChainVectors : Len(v) <= Len(z) } : setChainState(zv)
    \/ realizeVelocity
    \/ realizeDynamics
    \/ ThermostatCalcForce
    \/ GlobalDamperCalcForce
    \/ NewEvaluation

SpecDynamics == InitDynamics /\ [][NextDynamics]_vars

\* The derivative the law gives for the slot with the source's index k
ZDotLaw(k) ==
    LET m == dv.numChains
        N == getNumDOFs(matter)
        oot2 == Rat(1, dv.relaxationTime * dv.relaxationTime)
        Eb == Rat(thermostat.Kb * dv.bathTemp, 2)
        E == RDiv(thermoCache.KE, RInt(N))
        Z(j) == z[j + 1]
    IN  IF k = 0
        THEN RSub(RMul(RSub(RDiv(E, Eb), RInt(1)), oot2),
                  IF m > 1 THEN RInt(Z(0) * Z(1)) ELSE RZero)
        ELSE IF k < m
        THEN RSub(RSub(RInt((IF k = 1 THEN N ELSE 1) * Z(k - 1) * Z(k - 1)), oot2),
                  IF k < m - 1 THEN RInt(Z(k) * Z(k + 1)) ELSE RZero)
        ELSE RInt(Z(k - m))

\* C8: once realizeDynamics has run, every derivative slot holds the value
\* of the law: zdot_0 = (E/Eb - 1)*oot2 - z_0*z_1 (the product when m > 1),
\* zdot_k = Ndofs*z_{k-1}^2 - oot2 - z_k*z_{k+1} for k = 1..m-1 (the product
\* when k < m-1, Ndofs = N for k = 1 and 1 after), and slot m+k holds z_k.
C8_DerivativesFollowLaw ==
    stage = StageDynamics =>
        /\ Len(zdot) = 2 * dv.numChains
        /\ \A k \in 0 .. 2 * dv.numChains - 1 : zdot[k + 1] = ZDotLaw(k)

\* realizeDynamics has run with three chains or more, more than one degree
\* of freedom, kinetic energy and nonzero chain values
C8_Witness ==
    /\ stage = StageDynamics
    /\ dv.numChains >= 3
    /\ getNumDOFs(matter) > 1
    /\ thermoCache.KE # RZero
    /\ z = ChainVector(1, 0, 2 * dv.numChains)
    /\ dv.relaxationTime > 1

\* C9: the step in which the thermostat's calcForce runs subtracts z_0
\* times the momentum M*u from the mobility forces and leaves the body
\* forces, the particle forces and the chain state as they were.
C9_ThermostatTouchesOnlyMobilityForces ==
    [][ ("Thermostat" \notin evaluated /\ "Thermostat" \in evaluated') =>
           /\ mobilityForces' =
                  [i \in 1 .. NU |->
                      mobilityForces[i] - z[1] * calcMV(matter.M, stateU)[i]]
           /\ bodyForces' = bodyForces
           /\ particleForces' = particleForces
           /\ z' = z
           /\ zdot' = zdot
      ]_vars

\* The thermostat and the global damper have both contributed, and the
\* thermostat's friction is not zero
C9_Witness ==
    /\ evaluated = {"Thermostat", "GlobalDamper"}
    /\ z[1] # 0
    /\ calcMV(matter.M, stateU) # [i \in 1 .. NU |-> 0]
    /\ mobilityForces #
           GlobalDamperImpl_calcForce(ZeroMobilityForces, simple.globalDamper, stateU)

(***************************************************************************)
(* One evaluation of the forces of a system that holds one element of each *)
(* kind.  The force subsystem calls the elements' calcForce one after the  *)
(* other on the same accumulators; the order is left open.  Force::Custom  *)
(* hands the accumulators to an implementation the library does not hold,  *)
(* and is left out.                                                        *)
(***************************************************************************)
SweepOrder ==
    << "TwoPointLinearSpring", "TwoPointLinearDamper", "TwoPointConstantForce",
       "MobilityLinearSpring", "MobilityLinearDamper", "MobilityConstantForce",
       "LinearBushing", "ConstantForce", "ConstantTorque", "GlobalDamper",
       "Thermostat", "UniformGravity" >>

SweepMatter ==
    [M |-> << <<2, 1>>, <<1, 1>> >>, nUDotErr |-> 0,
     mass |-> [b \in Bodies |-> IF b = 0 THEN 0 ELSE b],
     com |-> [b \in Bodies |-> IF b = 2 THEN <<1, 0, 0>> ELSE <<0, 0, 0>>],
     particleMass |-> <<2>>, particleLoc |-> << <<0, 1, 0>> >>]

InitSweep ==
    /\ \E XA \in PoseSamplesA, p \in { <<2, 0, 0>>, <<1, 1, 0>> } :
          X_G = [b \in Bodies |-> CASE b = 1 -> XA
                                    [] b = 2 -> Xform(RotZ(1), p)
                                    [] OTHER -> IdentityTransform]
    /\ V_G = [b \in Bodies |-> CASE b = 1 -> SpatialVec(<<0, 0, 1>>, <<1, 0, 0>>)
                                 [] b = 2 -> SpatialVec(<<1, 0, 0>>, <<0, 1, 1>>)
                                 [] OTHER -> ZeroSpatial]
    /\ stateQ = <<2, 1>>
    /\ stateU = <<1, 2>>
    /\ matter = SweepMatter
    /\ \E a \in 1 .. MaxCoef :
          /\ bushing = LinearBushingImpl(1, IdentityTransform, 2, IdentityTransform,
                                         Mask6({1, 5}, a), Mask6(1 .. 6, a))
          /\ twoPoint = [body1 |-> 1, station1 |-> <<0, 0, 0>>,
                         body2 |-> 2, station2 |-> <<0, 0, 0>>,
                         k |-> a, x0 |-> 0, damping |-> a, force |-> a]
          /\ simple = SimpleElements(a)
    /\ returned = NoEnergy
    /\ NonSingular(bushing, X_G)
    /\ cache = EmptyCache
    /\ ThermostatBuilt(1, 1, 1, 1)
    /\ topologyValid = TRUE
    /\ stage = StageDynamics
    /\ dv = ThermostatImpl_realizeTopology(thermostat)
    /\ z = <<2, 0>>
    /\ thermoCache = ThermostatImpl_realizeVelocity(matter, stateU)
    /\ zdot = ThermostatImpl_realizeDynamics(<<RZero, RZero>>, z, dv, thermostat.Kb,
                                             thermoCache.KE, getNumDOFs(matter))
    /\ AccumulatorsZero

NextSweep ==
    \/ TwoPointLinearSpringCalcForce
    \/ TwoPointLinearDamperCalcForce
    \/ TwoPointConstantForceCalcForce
    \/ MobilityLinearSpringCalcForce
    \/ MobilityLinearDamperCalcForce
    \/ MobilityConstantForceCalcForce
    \/ BushingCalcForce
    \/ getF
    \/ getPotentialEnergy
    \/ ConstantForceCalcForce
    \/ ConstantTorqueCalcForce
    \/ GlobalDamperCalcForce
    \/ ThermostatCalcForce
    \/ UniformGravityCalcForce
    \/ NewEvaluation

SpecSweep == InitSweep /\ [][NextSweep]_vars

\* What one element's calcForce makes of the accumulators acc
Contribution(name, acc) ==
    CASE name = "TwoPointLinearSpring" ->
           [acc EXCEPT !.bf = TwoPointLinearSpringImpl_calcForce(@, twoPoint, X_G)]
      [] name = "TwoPointLinearDamper" ->
           [acc EXCEPT !.bf = TwoPointLinearDamperImpl_calcForce(@, twoPoint, X_G, V_G)]
      [] name = "TwoPointConstantForce" ->
           [acc EXCEPT !.bf = TwoPointConstantForceImpl_calcForce(@, twoPoint, X_G)]
      [] name = "MobilityLinearSpring" ->
           [acc EXCEPT !.mf = MobilityLinearSpringImpl_calcForce(@, simple.mobilitySpring,
                                                                 stateQ)]
      [] name = "MobilityLinearDamper" ->
           [acc EXCEPT !.mf = MobilityLinearDamperImpl_calcForce(@, simple.mobilityDamper,
                                                                 stateU)]
      [] name = "MobilityConstantForce" ->
           [acc EXCEPT !.mf = MobilityConstantForceImpl_calcForce(@, simple.mobilityConstant)]
      [] name = "LinearBushing" ->
           [acc EXCEPT !.bf = BushingApply(@,
                   ensureForceCacheValid(EmptyCache, bushing, X_G, V_G).forceCache,
                   bushing)]
      [] name = "ConstantForce" ->
           [acc EXCEPT !.bf = ConstantForceImpl_calcForce(@, simple.constantForce, X_G)]
      [] name = "ConstantTorque" ->
           [acc EXCEPT !.bf = ConstantTorqueImpl_calcForce(@, simple.constantTorque)]
      [] name = "GlobalDamper" ->
           [acc EXCEPT !.mf = GlobalDamperImpl_calcForce(@, simple.globalDamper, stateU)]
      [] name = "Thermostat" ->
           [acc EXCEPT !.mf = ThermostatImpl_calcForce(@, z, matter, stateU)]
      [] name = "UniformGravity" ->
           [acc EXCEPT !.pf = UniformGravityParticleForces(@, simple.gravity, matter),
                       !.bf = UniformGravityBodyForces(@, simple.gravity, matter, X_G)]

\* The accumulators after the elements of S, taken in the order of SweepOrder
\* from its i-th entry on
RECURSIVE Total(_, _, _)
Total(S, i, acc) ==
    IF i > Len(SweepOrder) THEN acc
    ELSE Total(S, i + 1,
               IF SweepOrder[i] \in S THEN Contribution(SweepOrder[i], acc) ELSE acc)

\* C10: in whatever order the elements evaluated so far have run, the
\* accumulators hold what the same elements give when each adds its
\* contribution in one fixed order, starting from zero.
C10_AccumulationCommutes ==
    [bf |-> bodyForces, pf |-> particleForces, mf |-> mobilityForces]
        = Total(evaluated, 1,
                [bf |-> ZeroBodyForces, pf |-> ZeroParticleForces,
                 mf |-> ZeroMobilityForces])

\* Every element has run, the LinearBushing among them with its caches
\* used by a read as well, and every accumulator holds a contribution
C10_Witness ==
    /\ evaluated = { SweepOrder[i] : i \in 1 .. Len(SweepOrder) }
    /\ cache.computed.potentialEnergy = 2
    /\ bodyForces[1] # ZeroSpatial
    /\ bodyForces[2][1] # Zero3
    /\ particleForces # ZeroParticleForces
    /\ mobilityForces # ZeroMobilityForces

(***************************************************************************)
(* UniformGravity: the force and the potential energy.                     *)
(***************************************************************************)
\* The particles' loop of calcPotentialEnergy (lines 904-910), from pe on,
\* over the particles 1 .. i
RECURSIVE UniformGravityParticleEnergy(_, _, _, _)
UniformGravityParticleEnergy(pe, el, mat, i) ==
    IF i = 0 THEN pe
    ELSE UniformGravityParticleEnergy(pe, el, mat, i - 1)
             - mat.particleMass[i] * (Dot(el.g, mat.particleLoc[i]) + el.zeroHeight)

\* The bodies' loop of calcPotentialEnergy (lines 913-922), from pe on, over
\* the bodies first .. i
RECURSIVE UniformGravityBodyEnergy(_, _, _, _, _, _)
UniformGravityBodyEnergy(pe, el, mat, XG, first, i) ==
    IF i < first THEN pe
    ELSE LET com_B_G == MatVec(XG[i].R, mat.com[i])
             com_G == Vec3Add(XG[i].p, com_B_G)
         IN  UniformGravityBodyEnergy(pe, el, mat, XG, first, i - 1)
                 - mat.mass[i] * (Dot(el.g, com_G) + el.zeroHeight)

\* A potential energy whose loop over the bodies starts at Ground
UniformGravityImpl_calcPotentialEnergyWithGround(el, mat, XG) ==
    UniformGravityBodyEnergy(UniformGravityParticleEnergy(0, el, mat, NParticles),
                             el, mat, XG, 0, 2)

UniformGravityImpl_calcPotentialEnergy(el, mat, XG) ==
    UniformGravityBodyEnergy(UniformGravityParticleEnergy(0, el, mat, NParticles),
                             el, mat, XG, 1, 2)

UniformGravityCalcPotentialEnergy ==
    /\ returned' = [of |-> "UniformGravity",
                    value |-> RInt(UniformGravityImpl_calcPotentialEnergy(
                                       simple.gravity, matter, X_G))]
    /\ UNCHANGED <<matterVars, bushing, twoPoint, simple, cache, accumVars, calls,
                   evaluated, thermoVars>>

\* The unit steps a body is displaced by
Steps == { <<1, 0, 0>>, <<0 - 1, 0, 0>>, <<0, 1, 0>>, <<0, 0 - 1, 0>> }

InBox(p) == \A i \in 1 .. 3 : 0 - MaxCoord <= p[i] /\ p[i] <= MaxCoord

\* The coordinates change so that body b is displaced by d
Displace(b, d) ==
    /\ calls = 0
    /\ InBox(Vec3Add(X_G[b].p, d))
    /\ X_G' = [X_G EXCEPT ![b] = Xform(@.R, Vec3Add(@.p, d))]
    /\ cache' = InvalidatePosition(cache)
    /\ UNCHANGED <<V_G, stateQ, stateU, matter, elementVars, accumVars, calls,
                   evaluated, thermoVars>>

GravitySamples ==
    { [g |-> Vec3Scale(a, dir), zeroHeight |-> h] :
         a \in 1 .. MaxCoef + 1,
         dir \in { <<0, 0 - 1, 0>>, <<0, 1, 0>>, <<1, 0, 0>> },
         h \in (0 - 1) .. 1 }

GravityMatterSamples ==
    { [DefaultMatter EXCEPT !.mass = [b \in Bodies |-> IF b = 2 THEN m2 ELSE 1],
                            !.com = [b \in Bodies |-> IF b = 2 THEN <<1, 0, 0>>
                                                      ELSE <<0, 0, 0>>],
                            !.particleMass = <<2>>,
                            !.particleLoc = <<loc>>] :
         m2 \in 0 .. 1, loc \in { <<0, 1, 0>>, <<0, 0 - 1, 0>>, <<1, 0, 0>> } }

InitGravity ==
    /\ \E p \in { <<0, 0, 0>>, <<0 - 1, 1, 0>> },
          X2 \in { Xform(RotZ(1), <<0, 0, 0>>), Xform(Identity33, <<0 - 1, 1, 0>>),
                   Xform(RotZ(1), <<1, 0 - 1, 0>>) } :
          X_G = [b \in Bodies |-> CASE b = 1 -> Xform(Identity33, p)
                                    [] b = 2 -> X2
                                    [] OTHER -> IdentityTransform]
    /\ V_G = [b \in Bodies |-> ZeroSpatial]
    /\ stateQ = [i \in 1 .. NU |-> 0]
    /\ stateU = [i \in 1 .. NU |-> 0]
    /\ matter \in GravityMatterSamples
    /\ bushing = NoBushing
    /\ twoPoint = NoTwoPoint
    /\ \E el \in GravitySamples : simple = [NoSimple EXCEPT !.gravity = el]
    /\ returned = NoEnergy
    /\ cache = EmptyCache
    /\ ThermostatIdle
    /\ AccumulatorsZero

NextGravity ==
    \/ UniformGravityCalcForce
    \/ UniformGravityCalcPotentialEnergy
    \/ \E d \in Steps : Displace(1, d)
    \/ NewEvaluation

SpecGravity == InitGravity /\ [][NextGravity]_vars

\* The height of a point: its coordinate along the direction opposite to g,
\* times the magnitude of g
HeightTimesNorm(el, p) == 0 - Dot(el.g, p)

\* Every body but Ground has its mass center, and every particle is, at the
\* height zeroHeight
AllAtZeroHeight ==
    /\ HasNorm(simple.gravity.g)
    /\ \A b \in Bodies \ {0} :
          HeightTimesNorm(simple.gravity,
                          Vec3Add(X_G[b].p, MatVec(X_G[b].R, matter.com[b])))
              = Norm(simple.gravity.g) * simple.gravity.zeroHeight
    /\ \A i \in 1 .. NParticles :
          HeightTimesNorm(simple.gravity, matter.particleLoc[i])
              = Norm(simple.gravity.g) * simple.gravity.zeroHeight

\* C11: calcPotentialEnergy returns exactly zero when every body's mass
\* center and every particle is at the height zeroHeight, for any gravity
\* vector, of magnitude 1 or not.
C11_ZeroAtZeroHeight ==
    [][ (UniformGravityCalcPotentialEnergy /\ AllAtZeroHeight)
            => returned'.value = RZero ]_vars

\* The sum of -mass*(g . position + zeroHeight) over the bodies but Ground
\* and the particles
GravityEnergyOf(el, mass, position) == 0 - mass * (Dot(el.g, position) + el.zeroHeight)

GravityEnergySum ==
    GravityEnergyOf(simple.gravity, matter.mass[1],
                    Vec3Add(X_G[1].p, MatVec(X_G[1].R, matter.com[1])))
  + GravityEnergyOf(simple.gravity, matter.mass[2],
                    Vec3Add(X_G[2].p, MatVec(X_G[2].R, matter.com[2])))
  + GravityEnergyOf(simple.gravity, matter.particleMass[1], matter.particleLoc[1])

\* The weight mass*g applied at a point offset from the body origin by r
WeightAt(el, mass, r) ==
    SpatialVec(Cross(r, Vec3Scale(mass, el.g)), Vec3Scale(mass, el.g))

\* C12: calcForce adds the weight mass*g, applied at the mass center, to
\* every body but Ground and mass*g to every particle, and nothing to
\* Ground; calcPotentialEnergy returns the sum of -mass*(g.position +
\* zeroHeight) over the same bodies and particles; and the potential energy
\* is strictly lower after a body of positive mass has been displaced by a
\* positive multiple of g.
C12_WeightAndEnergy ==
    [][ /\ UniformGravityCalcForce =>
              /\ bodyForces'[0] = bodyForces[0]
              /\ \A b \in Bodies \ {0} :
                    bodyForces'[b]
                        = SpatialAdd(bodyForces[b],
                                     WeightAt(simple.gravity, matter.mass[b],
                                              MatVec(X_G[b].R, matter.com[b])))
              /\ \A i \in 1 .. NParticles :
                    particleForces'[i]
                        = Vec3Add(particleForces[i],
                                  Vec3Scale(matter.particleMass[i], simple.gravity.g))
        /\ UniformGravityCalcPotentialEnergy =>
              returned'.value = RInt(GravityEnergySum)
        /\ \A d \in Steps :
              (/\ Displace(1, d)
               /\ matter.mass[1] > 0
               /\ \E t \in 1 .. 2 : Vec3Scale(t, d) = simple.gravity.g)
                  => UniformGravityImpl_calcPotentialEnergy(simple.gravity, matter, X_G')
                         < UniformGravityImpl_calcPotentialEnergy(simple.gravity, matter, X_G)
      ]_vars

\* The potential energy has been asked for after a displacement of body 1
\* along g, with a gravity of magnitude 2 and a zero height other than 0,
\* and the force has been applied
C12_Witness ==
    /\ returned.of = "UniformGravity"
    /\ returned.value = RInt(GravityEnergySum)
    /\ Dot(simple.gravity.g, simple.gravity.g) = 4
    /\ simple.gravity.zeroHeight # 0
    /\ Dot(simple.gravity.g, X_G[1].p) > 0
    /\ bodyForces[2][1] # Zero3
    /\ particleForces[1] # Zero3

(***************************************************************************)
(* The constructors.  Each one creates the Impl from its arguments, in the *)
(* initializer Force(new ...Impl(...)), and then registers the force.  The *)
(* three dampers' constructors hold assert(damping >= 0) between the two:  *)
(* a build without NDEBUG aborts the program on a failed assertion, a      *)
(* build with NDEBUG has no assertion.  The bodies and the stations are    *)
(* those of the model; the arguments are the coefficients.                 *)
(***************************************************************************)
ConstructorFrame ==
    UNCHANGED <<matterVars, returned, cache, accumVars, calls, evaluated,
                thermostat, stage, dv, z, zdot, thermoCache>>

\* The program has been aborted by a failed assertion
Aborted ==
    /\ err' = "abort"
    /\ UNCHANGED <<adopted, handles, topologyValid>>

TwoPointLinearSpring(k, x0) ==
    /\ ~handles["TwoPointLinearSpring"].impl
    /\ twoPoint' = [twoPoint EXCEPT !.k = k, !.x0 = x0]
    /\ Construct("TwoPointLinearSpring")
    /\ err' = ""
    /\ UNCHANGED <<bushing, simple>>
    /\ ConstructorFrame

TwoPointLinearDamper(damping) ==
    /\ ~handles["TwoPointLinearDamper"].impl
    /\ \/ /\ ~(damping >= 0)
          /\ Aborted
          /\ UNCHANGED twoPoint
       \/ /\ twoPoint' = [twoPoint EXCEPT !.damping = damping]
          /\ Construct("TwoPointLinearDamper")
          /\ err' = ""
    /\ UNCHANGED <<bushing, simple>>
    /\ ConstructorFrame

TwoPointConstantForce(force) ==
    /\ ~handles["TwoPointConstantForce"].impl
    /\ twoPoint' = [twoPoint EXCEPT !.force = force]
    /\ Construct("TwoPointConstantForce")
    /\ err' = ""
    /\ UNCHANGED <<bushing, simple>>
    /\ ConstructorFrame

MobilityLinearSpring(k, x0) ==
    /\ ~handles["MobilityLinearSpring"].impl
    /\ simple' = [simple EXCEPT !.mobilitySpring.k = k, !.mobilitySpring.x0 = x0]
    /\ Construct("MobilityLinearSpring")
    /\ err' = ""
    /\ UNCHANGED <<bushing, twoPoint>>
    /\ ConstructorFrame

MobilityLinearDamper(damping) ==
    /\ ~handles["MobilityLinearDamper"].impl
    /\ \/ /\ ~(damping >= 0)
          /\ Aborted
          /\ UNCHANGED simple
       \/ /\ simple' = [simple EXCEPT !.mobilityDamper.damping = damping]
          /\ Construct("MobilityLinearDamper")
          /\ err' = ""
    /\ UNCHANGED <<bushing, twoPoint>>
    /\ ConstructorFrame

MobilityConstantForce(force) ==
    /\ ~handles["MobilityConstantForce"].impl
    /\ simple' = [simple EXCEPT !.mobilityConstant.force = force]
    /\ Construct("MobilityConstantForce")
    /\ err' = ""
    /\ UNCHANGED <<bushing, twoPoint>>
    /\ ConstructorFrame

LinearBushing(frameOnA, frameOnB, stiffness, damping) ==
    /\ ~handles["LinearBushing"].impl
    /\ bushing' = LinearBushingImpl(bushing.bodyA, frameOnA, bushing.bodyB, frameOnB,
                                    stiffness, damping)
    /\ Construct("LinearBushing")
    /\ err' = ""
    /\ UNCHANGED <<twoPoint, simple>>
    /\ ConstructorFrame

\* The overload that takes the body frames as F and M
LinearBushingBodyFrames(stiffness, damping) ==
    /\ ~handles["LinearBushing"].impl
    /\ bushing' = LinearBushingImpl(bushing.bodyA, IdentityTransform,
                                    bushing.bodyB, IdentityTransform,
                                    stiffness, damping)
    /\ Construct("LinearBushing")
    /\ err' = ""
    /\ UNCHANGED <<twoPoint, simple>>
    /\ ConstructorFrame

ConstantForce(force) ==
    /\ ~handles["ConstantForce"].impl
    /\ simple' = [simple EXCEPT !.constantForce.force = force]
    /\ Construct("ConstantForce")
    /\ err' = ""
    /\ UNCHANGED <<bushing, twoPoint>>
    /\ ConstructorFrame

ConstantTorque(torque) ==
    /\ ~handles["ConstantTorque"].impl
    /\ simple' = [simple EXCEPT !.constantTorque.torque = torque]
    /\ Construct("ConstantTorque")
    /\ err' = ""
    /\ UNCHANGED <<bushing, twoPoint>>
    /\ ConstructorFrame

GlobalDamper(damping) ==
    /\ ~handles["GlobalDamper"].impl
    /\ \/ /\ ~(damping >= 0)
          /\ Aborted
          /\ UNCHANGED simple
       \/ /\ simple' = [simple EXCEPT !.globalDamper.damping = damping]
          /\ Construct("GlobalDamper")
          /\ err' = ""
    /\ UNCHANGED <<bushing, twoPoint>>
    /\ ConstructorFrame

UniformGravity(g, zeroHeight) ==
    /\ ~handles["UniformGravity"].impl
    /\ simple' = [simple EXCEPT !.gravity = [g |-> g, zeroHeight |-> zeroHeight]]
    /\ Construct("UniformGravity")
    /\ err' = ""
    /\ UNCHANGED <<bushing, twoPoint>>
    /\ ConstructorFrame

\* The Implementation a Custom force forwards to is not part of the model
Custom ==
    /\ ~handles["Custom"].impl
    /\ Construct("Custom")
    /\ err' = ""
    /\ UNCHANGED <<bushing, twoPoint, simple>>
    /\ ConstructorFrame

DampingArguments == (0 - 1) .. MaxCoef

BushingDampingArguments ==
    { Zero6, Mask6({2}, 0 - 1) } \cup { Mask6(1 .. 6, a) : a \in 1 .. MaxCoef }

InitConstruct ==
    /\ X_G = [b \in Bodies |-> IdentityTransform]
    /\ V_G = [b \in Bodies |-> ZeroSpatial]
    /\ MatterIdle
    /\ bushing = NoBushing
    /\ twoPoint = NoTwoPoint
    /\ simple = NoSimple
    /\ returned = NoEnergy
    /\ cache = EmptyCache
    /\ ThermostatIdle
    /\ AccumulatorsZero

\* The program goes on constructing forces until it has MaxForces of them or
\* an assertion has aborted it
Constructing == err # "abort" /\ Len(adopted) < MaxForces

NextConstruct ==
    \/ Constructing /\ TwoPointLinearSpring(1, 1)
    \/ Constructing /\ \E damping \in DampingArguments : TwoPointLinearDamper(damping)
    \/ Constructing /\ TwoPointConstantForce(1)
    \/ Constructing /\ MobilityLinearSpring(1, 1)
    \/ Constructing /\ \E damping \in DampingArguments : MobilityLinearDamper(damping)
    \/ Constructing /\ MobilityConstantForce(1)
    \/ Constructing /\ \E damping \in BushingDampingArguments :
                          LinearBushing(Xform(RotZ(1), <<1, 0, 0>>), IdentityTransform,
                                        Mask6({4}, 1), damping)
    \/ Constructing /\ \E damping \in BushingDampingArguments :
                          LinearBushingBodyFrames(Mask6({4}, 1), damping)
    \/ Constructing /\ ConstantForce(<<1, 0, 0>>)
    \/ Constructing /\ ConstantTorque(<<0, 0, 1>>)
    \/ Constructing /\ \E damping \in DampingArguments : GlobalDamper(damping)
    \/ Constructing /\ \E Kb \in 0 .. 1 : Thermostat(Kb, 1, 1)
    \/ Constructing /\ UniformGravity(<<0, 0 - 1, 0>>, 0)
    \/ Constructing /\ Custom

SpecConstruct == InitConstruct /\ [][NextConstruct]_vars

\* A constructor has reported an error and has left the force subsystem and
\* every element as they were
RejectedAtConstruction ==
    /\ err' # ""
    /\ adopted' = adopted
    /\ handles' = handles
    /\ bushing' = bushing
    /\ twoPoint' = twoPoint
    /\ simple' = simple

\* C14: the constructor of a damping element (TwoPointLinearDamper,
\* MobilityLinearDamper, GlobalDamper, LinearBushing) given a negative
\* damping coefficient, or a damping vector with a negative component,
\* reports an error, registers nothing and stores no value.
C14_NegativeDampingRejected ==
    [][ /\ \A damping \in DampingArguments :
              (/\ damping < 0
               /\ \/ TwoPointLinearDamper(damping)
                  \/ MobilityLinearDamper(damping)
                  \/ GlobalDamper(damping)) => RejectedAtConstruction
        /\ \A damping \in BushingDampingArguments :
              (/\ \E i \in 1 .. 6 : damping[i] < 0
               /\ \/ LinearBushing(Xform(RotZ(1), <<1, 0, 0>>), IdentityTransform,
                                   Mask6({4}, 1), damping)
                  \/ LinearBushingBodyFrames(Mask6({4}, 1), damping))
                  => RejectedAtConstruction
      ]_vars

\* The places kind has in the force subsystem's list
PlacesOf(kind) == { i \in 1 .. Len(adopted) : adopted[i] = kind }

\* C18: every handle that holds an Impl is in the force subsystem's list
\* exactly once, at the index bound to its Impl; the list holds no force
\* whose constructor has not returned, and a constructor adds one entry.
C18_RegisteredExactlyOnce ==
    /\ \A kind \in ForceKinds :
          IF handles[kind].impl
          THEN PlacesOf(kind) = { handles[kind].forceIndex + 1 }
          ELSE PlacesOf(kind) = {} /\ handles[kind].forceIndex = InvalidIndex
    /\ thermostat.constructed = handles["Thermostat"].impl
    /\ Len(adopted) = Cardinality({ kind \in ForceKinds : handles[kind].impl })

\* A LinearBushing has been registered after a Custom force
C18_Witness ==
    /\ adopted = <<"Custom", "LinearBushing">>
    /\ handles["LinearBushing"].forceIndex = 1
    /\ bushing.k # Zero6


(***************************************************************************)
(* Further properties of the LinearBushing's cache.                        *)
(***************************************************************************)
\* One half of the sum over the six axes of k_i*q_i^2, from the poses of the
\* State
HalfStiffnessEnergy ==
    LET q == calcPositionCache(bushing, X_G).q
        k == bushing.k
    IN  Rat(k[1] * q[1] * q[1] + k[2] * q[2] * q[2] + k[3] * q[3] * q[3]
            + k[4] * q[4] * q[4] + k[5] * q[5] * q[5] + k[6] * q[6] * q[6], 2)

\* C15: calcPotentialEnergy and getPotentialEnergy, on a State whose force
\* entry may never have been computed, leave the position and the
\* potential-energy entries valid with the energy in the cache, and leave
\* the velocity and the force entries as they were: neither computed nor
\* marked valid.
C15_EnergyStandalone ==
    [][(getPotentialEnergy \/ BushingCalcPotentialEnergy) =>
          /\ cache'.positionValid
          /\ cache'.potentialEnergyValid
          /\ cache'.potentialEnergyCache = HalfStiffnessEnergy
          /\ cache'.velocityValid = cache.velocityValid
          /\ cache'.velocityCache = cache.velocityCache
          /\ cache'.forceValid = cache.forceValid
          /\ cache'.forceCache = cache.forceCache
          /\ cache'.computed.velocity = cache.computed.velocity
          /\ cache'.computed.force = cache.computed.force]_vars

\* The energy was obtained, and is not zero, on a State whose velocity
\* entry is valid and whose force entry was never computed
C15_Witness ==
    /\ cache.potentialEnergyValid
    /\ cache.potentialEnergyCache.n # 0
    /\ cache.computed.potentialEnergy = 1
    /\ cache.velocityValid
    /\ ~cache.forceValid
    /\ cache.computed.force = 0
    /\ calls = 0

\* C16: the generalized force is f_i = -(k_i*q_i + c_i*qdot_i) on each of
\* the six axes by itself; where only the translational coordinate i is
\* displaced and every rate is zero, f_i = -k_i*q_i and every other f_j is
\* zero, whatever the stiffness and the damping of the other axes.
C16_ForceDecoupled ==
    cache.forceValid =>
        LET q == calcPositionCache(bushing, X_G).q
            qdot == cache.velocityCache.qdot
            f == cache.forceCache.f
        IN  /\ \A i \in 1 .. 6 :
                   f[i] = 0 - (bushing.k[i] * q[i] + bushing.c[i] * qdot[i])
            /\ \A i \in 4 .. 6 :
                   (/\ \A j \in (1 .. 6) \ {i} : q[j] = 0
                    /\ qdot = Zero6)
                   => f = [j \in 1 .. 6 |-> IF j = i THEN 0 - bushing.k[i] * q[i]
                                            ELSE 0]

\* The force is valid for a pose with one translational coordinate displaced,
\* the bodies at rest, all six axes stiff and damped, and the force on the
\* displaced axis is not zero
C16_Witness ==
    /\ cache.forceValid
    /\ \E i \in 4 .. 6 :
          /\ cache.positionCache.q[i] # 0
          /\ \A j \in (1 .. 6) \ {i} : cache.positionCache.q[j] = 0
          /\ cache.forceCache.f[i] # 0
    /\ cache.velocityCache.qdot = Zero6
    /\ \A j \in 1 .. 6 : bushing.k[j] # 0 /\ bushing.c[j] # 0


(***************************************************************************)
(* The thermostat's bath energy.                                           *)
(***************************************************************************)
\* The loop over i = 1 .. nChains-1 that adds square(getZ(i)) to
\* N*square(getZ(0)); the source's index i is the sequence index i+1
RECURSIVE zsqsum(_, _, _)
zsqsum(zs, N, i) ==
    IF i = 0 THEN N * (zs[1] * zs[1])
    ELSE zsqsum(zs, N, i - 1) + zs[i + 1] * zs[i + 1]

\* The sum of the bookkeeping variables read from the chain slots 0 .. m-1
RECURSIVE ssumChainSlots(_, _, _, _)
ssumChainSlots(zs, N, nChains, i) ==
    IF i = 0 THEN N * zs[1]
    ELSE ssumChainSlots(zs, N, nChains, i - 1) + zs[i + 1]

\* The loop over i = 1 .. nChains-1 that adds getZ(nChains+i) to
\* N*getZ(nChains)
RECURSIVE ssum(_, _, _, _)
ssum(zs, N, nChains, i) ==
    IF i = 0 THEN N * zs[nChains + 1]
    ELSE ssum(zs, N, nChains, i - 1) + zs[nChains + i + 1]

calcBathEnergy(zs, d, Kb, N) ==
    LET nChains == d.numChains
        kT == Kb * d.bathTemp
        t == d.relaxationTime
        KEb == RMul(RMul(Rat(kT, 2), RInt(t * t)), RInt(zsqsum(zs, N, nChains - 1)))
        PEb == RInt(kT * ssum(zs, N, nChains, nChains - 1))
    IN  RAdd(KEb, PEb)

ThermostatCalcBathEnergy ==
    /\ stage >= StageModel
    /\ returned' = [of |-> "Thermostat",
                    value |-> calcBathEnergy(z, dv, thermostat.Kb,
                                             getNumDOFs(matter))]
    /\ UNCHANGED <<matterVars, bushing, twoPoint, simple, cache, accumVars, calls,
                   evaluated, thermoVars>>

NextBath ==
    \/ \E zv \in { v \in ChainVectors : Len(v) <= Len(z) } : setChainState(zv)
    \/ initializeChainState
    \/ realizeVelocity
    \/ realizeDynamics
    \/ ThermostatCalcBathEnergy

SpecBath == InitDynamics /\ [][NextBath]_vars

RECURSIVE SumFrom(_, _, _)
SumFrom(f, lo, hi) == IF lo > hi THEN 0 ELSE f[lo] + SumFrom(f, lo + 1, hi)

\* KEb + PEb of the chain state zs, z_i in slot i and s_i in slot m+i
BathEnergyLaw(zs) ==
    LET m == dv.numChains
        N == getNumDOFs(matter)
        kT == thermostat.Kb * dv.bathTemp
        tau == dv.relaxationTime
        Z(i) == zs[i + 1]
        S(i) == zs[m + i + 1]
        KEb == Rat(kT * tau * tau
                     * (N * Z(0) * Z(0)
                        + SumFrom([i \in 1 .. m - 1 |-> Z(i) * Z(i)], 1, m - 1)), 2)
        PEb == RInt(kT * (N * S(0) + SumFrom([i \in 1 .. m - 1 |-> S(i)], 1, m - 1)))
    IN  RAdd(KEb, PEb)

\* C17: calcBathEnergy returns KEb + PEb with
\* KEb = (Kb*T/2)*tau^2*(N*z_0^2 + z_1^2 + .. + z_{m-1}^2) and
\* PEb = Kb*T*(N*s_0 + s_1 + .. + s_{m-1}), s_i read from slot m+i of the
\* block; realizeDynamics sets the derivative of that slot m+i to z_i; and
\* the bath energy of the chain state that initializeChainState leaves is
\* zero.
C17_BathEnergy ==
    [][/\ ThermostatCalcBathEnergy =>
              returned' = [of |-> "Thermostat", value |-> BathEnergyLaw(z)]
       /\ realizeDynamics =>
              \A i \in 0 .. dv.numChains - 1 :
                 zdot'[dv.numChains + i + 1] = RInt(z[i + 1])
       /\ initializeChainState =>
              /\ BathEnergyLaw(z') = RZero
              /\ calcBathEnergy(z', dv', thermostat'.Kb, getNumDOFs(matter'))
                    = RZero]_vars

\* calcBathEnergy has returned an energy that is not zero for three chains
\* or more and more than one degree of freedom, with z_0, z_1, s_0 and s_1
\* not zero and the derivatives of the s slots set by realizeDynamics
C17_Witness ==
    /\ returned.of = "Thermostat"
    /\ returned.value = BathEnergyLaw(z)
    /\ returned.value # RZero
    /\ dv.numChains >= 3
    /\ getNumDOFs(matter) > 1
    /\ z[1] # 0 /\ z[2] # 0
    /\ z[dv.numChains + 1] # 0 /\ z[dv.numChains + 2] # 0
    /\ stage = StageDynamics
    /\ zdot[dv.numChains + 1] = RInt(z[1])

\* A valid entry has valid prerequisites
PrerequisitesValid(cs) ==
    /\ cs.velocityValid => cs.positionValid
    /\ cs.forceValid =>
          cs.positionValid /\ cs.velocityValid /\ cs.potentialEnergyValid
    /\ cs.potentialEnergyValid => cs.positionValid

BushingAccessor ==
    \/ getQ \/ getX_FM \/ getQDot \/ getV_FM \/ getF \/ getF_GF \/ getF_GM
    \/ getPotentialEnergy \/ BushingCalcPotentialEnergy \/ BushingCalcForce

\* C19: before and after every step of an accessor or of an invalidation of
\* the Position or the Velocity stage, a valid velocity entry implies a
\* valid position entry, a valid force entry implies valid position,
\* velocity and potential-energy entries, a valid potential-energy entry
\* implies a valid position entry; and no accessor clears a validity flag.
C19_ValidImpliesPrerequisites ==
    [][/\ PrerequisitesValid(cache)
       /\ PrerequisitesValid(cache')
       /\ (cache' # cache /\ UNCHANGED <<X_G, V_G>> /\ BushingAccessor) =>
             /\ cache.positionValid => cache'.positionValid
             /\ cache.velocityValid => cache'.velocityValid
             /\ cache.forceValid => cache'.forceValid
             /\ cache.potentialEnergyValid => cache'.potentialEnergyValid]_vars

\* The force entry was filled again after an invalidation of the Velocity
\* stage that left the position and the potential-energy entries valid
C19_Witness ==
    /\ cache.forceValid
    /\ cache.velocityValid
    /\ cache.positionValid
    /\ cache.potentialEnergyValid
    /\ cache.computed.force = 1
    /\ cache.computed.velocity = 1
    /\ cache.computed.position = 0
    /\ V_G[2] # ZeroSpatial

\* C20: the potential energy in the cache is one half of the sum of
\* k_i*q_i^2 over the six axes of the current state, whether the force path
\* or the standalone path stored it, so what calcPotentialEnergy returns
\* from the cache as it stands is what it returns from an empty cache.
C20_EnergySameOnBothPaths ==
    /\ cache.potentialEnergyValid =>
          cache.potentialEnergyCache = HalfStiffnessEnergy
    /\ ensurePotentialEnergyValid(cache, bushing, X_G).potentialEnergyCache
          = ensurePotentialEnergyValid(EmptyCache, bushing, X_G).potentialEnergyCache
    /\ ensureForceCacheValid(EmptyCache, bushing, X_G, V_G).potentialEnergyCache
          = ensurePotentialEnergyValid(EmptyCache, bushing, X_G).potentialEnergyCache

\* The energy in the cache was stored by the force path alone, it is not
\* zero, and a coordinate with stiffness is neither 0 nor 1
C20_Witness ==
    /\ cache.forceValid
    /\ cache.computed.force = 1
    /\ cache.computed.potentialEnergy = 1
    /\ cache.potentialEnergyCache # RZero
    /\ \E i \in 1 .. 6 :
          bushing.k[i] # 0 /\ cache.positionCache.q[i] \notin {0, 1}


(***************************************************************************)
(* realizeDynamics and the previous contents of the derivative slots.      *)
(***************************************************************************)
\* Contents the derivative block may hold before a call
PriorContents(len) ==
    { [i \in 1 .. len |-> r] : r \in { RZero, RInt(1), Rat(0 - 1, 2) } }
    \cup { [i \in 1 .. len |-> RInt(i)] }

\* C21: a call of realizeDynamics assigns every one of the 2m derivative
\* slots, and what it leaves depends only on the state: it is what the call
\* leaves from any other previous contents of the slots, and a second call
\* on the same state leaves the same derivatives.
C21_RealizeDynamicsIdempotent ==
    [][realizeDynamics =>
          /\ Len(zdot') = 2 * dv.numChains
          /\ \A prior \in PriorContents(2 * dv.numChains) :
                 ThermostatImpl_realizeDynamics(prior, z, dv, thermostat.Kb,
                                                thermoCache.KE, getNumDOFs(matter))
                   = zdot'
          /\ ThermostatImpl_realizeDynamics(zdot', z', dv', thermostat'.Kb,
                                            thermoCache'.KE, getNumDOFs(matter'))
                = zdot']_vars

\* realizeDynamics has run for three chains or more, more than one degree
\* of freedom and kinetic energy; every slot it left is nonzero, and a
\* further call leaves them as they are
C21_Witness ==
    /\ stage = StageDynamics
    /\ dv.numChains >= 3
    /\ getNumDOFs(matter) > 1
    /\ thermoCache.KE # RZero
    /\ Len(zdot) = 2 * dv.numChains
    /\ \A i \in 1 .. Len(zdot) : zdot[i] # RZero
    /\ ThermostatImpl_realizeDynamics(zdot, z, dv, thermostat.Kb, thermoCache.KE,
                                      getNumDOFs(matter)) = zdot

=============================================================================
